---- MODULE Spec2Model ----
(***************************************************************************)
(* A model of procinfo's /proc/[pid]/maps decoding pipeline:               *)
(*   unmangle.rs   UnmangledPath::next, unmangled_path                     *)
(*   pid/maps.rs   parse_file_pathname, parse_anonymous_pathname,          *)
(*                 parse_maps_entry, maps_file                             *)
(*   parsers.rs    parse_u64, parse_u32_hex, parse_u64_hex, read_to_end    *)
(* Bytes are the integers 0..255; a byte slice is a sequence of bytes.     *)
(***************************************************************************)
EXTENDS Integers, Sequences, FiniteSets, TLC

VARIABLES
    pc,        \* position of the call in progress
    src,       \* the byte slice handed to the operation under study
    escaped,   \* UnmangledPath.escaped
    path,      \* UnmangledPath.path: the part of the slice not yet consumed
    out,       \* the Vec<u8> that collect() is building
    origin,    \* how the environment (the kernel) produced src
    ret,       \* the value the operation returned
    parsed,    \* maps_file: the lines handed to parse_maps_entry so far
    buf,       \* read_to_end: the caller's buffer
    from,      \* read_to_end: the count of bytes read so far
    log        \* read_to_end: the outcome of every read call so far

vars == <<pc, src, escaped, path, out, origin, ret, parsed, buf, from, log>>

\* The variables of maps_file and read_to_end, at rest.
Idle == parsed = <<>> /\ buf = <<>> /\ from = 0 /\ log = <<>>

(***************************************************************************)
(* Bytes                                                                   *)
(***************************************************************************)
TAB == 9
LF == 10
SP == 32
PLUS == 43
MINUS == 45
D0 == 48
D1 == 49
D2 == 50
BS == 92
LA == 97

\* All sequences over S of length at most n.
BSeq(S, n) == UNION {[1..k -> S] : k \in 0..n}

\* s[n..] of Rust, with n counted from 0.
Skip(s, n) == SubSeq(s, n + 1, Len(s))

\* s[..to] of Rust.
Take(s, to) == SubSeq(s, 1, to)

(***************************************************************************)
(* <integer>::from_str_radix for the unsigned types.  An optional leading  *)
(* '+' is accepted ('-' is an invalid digit of an unsigned type), then     *)
(* every byte must be a digit of the radix, and the checked multiply-and-  *)
(* add loop fails as soon as the value leaves the type.  During the loop   *)
(* the value is kept as the bytes of the type, least significant first,    *)
(* so that u32 and u64 have their true width.                              *)
(***************************************************************************)
Err == [ok |-> FALSE, val |-> 0]

Ok(v) == [ok |-> TRUE, val |-> v]

\* char::to_digit; -1 stands for None.
to_digit(b, radix) ==
    LET d == IF b >= 48 /\ b <= 57 THEN b - 48
             ELSE IF b >= 97 /\ b <= 122 THEN b - 97 + 10
             ELSE IF b >= 65 /\ b <= 90 THEN b - 65 + 10
             ELSE -1
    IN  IF d < radix THEN d ELSE -1

\* size_of::<u8>(), size_of::<u32>(), size_of::<u64>()
U8_BYTES == 1

U32_BYTES == 4

U64_BYTES == 8

\* The element of a set of one element.  A value that is used more than
\* once is bound as the element of such a set, so that it is computed once.
The(S) == CHOOSE v \in S : TRUE

RECURSIVE MulAdd(_, _, _)
\* value * radix + digit on the bytes of the value: the bytes of the result,
\* followed by the carry out of the most significant byte.
MulAdd(value, radix, carry) ==
    IF value = <<>> THEN <<carry>>
    ELSE The({<<t % 256>> \o MulAdd(Tail(value), radix, t \div 256) :
                 t \in {Head(value) * radix + carry}})

RECURSIVE Accumulate_Wrapping(_, _, _)
\* The loop with wrapping_mul and wrapping_add.
Accumulate_Wrapping(digits, radix, acc) ==
    IF digits = <<>> THEN acc
    ELSE The({Accumulate_Wrapping(Tail(digits), radix, Take(m, Len(m) - 1)) :
                 m \in {MulAdd(acc, radix, Head(digits))}})

RECURSIVE Accumulate(_, _, _)
\* result = result.checked_mul(radix)?.checked_add(digit)? over the digits;
\* <<>> stands for None.
Accumulate(digits, radix, acc) ==
    IF digits = <<>> THEN acc
    ELSE The({IF m[Len(m)] # 0 THEN <<>>
              ELSE Accumulate(Tail(digits), radix, Take(m, Len(m) - 1)) :
                 m \in {MulAdd(acc, radix, Head(digits))}})

\* The value of the bytes: an integer when it is below 2^31, the bytes
\* themselves above.
Number(value) ==
    LET b(i) == IF i <= Len(value) THEN value[i] ELSE 0 IN
    IF b(4) < 128 /\ \A i \in 5..Len(value) : value[i] = 0
    THEN b(1) + 256 * b(2) + 65536 * b(3) + 16777216 * b(4)
    ELSE [bytes |-> value]

from_str_radix(bytes, radix, width) ==
    IF bytes = <<>> THEN Err
    ELSE IF Len(bytes) = 1 /\ Head(bytes) \in {PLUS, MINUS} THEN Err
    ELSE LET body == IF Head(bytes) = PLUS THEN Tail(bytes) ELSE bytes
             digits == [i \in 1..Len(body) |-> to_digit(body[i], radix)]
         IN  IF \E i \in 1..Len(body) : digits[i] < 0 THEN Err
             ELSE The({IF v = <<>> THEN Err ELSE Ok(Number(v)) :
                          v \in {Accumulate(digits, radix, [i \in 1..width |-> 0])}})

u8_from_bytes_radix(bytes, radix) == from_str_radix(bytes, radix, U8_BYTES)

(***************************************************************************)
(* UnmangledPath::next on a non-empty path: the item yielded and the path  *)
(* left in the iterator.                                                   *)
(***************************************************************************)
NextItem_Skip3(p, esc) ==
    LET c == IF Len(p) >= 4 /\ p[1] = BS
             THEN u8_from_bytes_radix(SubSeq(p, 2, 4), 8) ELSE Err
    IN  IF c.ok /\ c.val \in esc
        THEN [item |-> c.val, rest |-> Skip(p, 3)]
        ELSE [item |-> Head(p), rest |-> Tail(p)]

NextItem_NoBackslash(p, esc) ==
    LET c == IF Len(p) >= 4
             THEN u8_from_bytes_radix(SubSeq(p, 2, 4), 8) ELSE Err
    IN  IF c.ok /\ c.val \in esc
        THEN [item |-> c.val, rest |-> Skip(p, 4)]
        ELSE [item |-> Head(p), rest |-> Tail(p)]

\* next that takes a backslash which starts no escape together with the
\* byte after it, and yields that byte.
NextItem_DropBackslash(p, esc) ==
    LET c == IF Len(p) >= 4 /\ p[1] = BS
             THEN u8_from_bytes_radix(SubSeq(p, 2, 4), 8) ELSE Err
    IN  IF c.ok /\ c.val \in esc
        THEN [item |-> c.val, rest |-> Skip(p, 4)]
        ELSE IF Len(p) >= 2 /\ p[1] = BS
        THEN [item |-> p[2], rest |-> Skip(p, 2)]
        ELSE [item |-> Head(p), rest |-> Tail(p)]

NextItem(p, esc) ==
    LET c == IF Len(p) >= 4 /\ p[1] = BS
             THEN u8_from_bytes_radix(SubSeq(p, 2, 4), 8) ELSE Err
    IN  IF c.ok /\ c.val \in esc
        THEN [item |-> c.val, rest |-> Skip(p, 4)]
        ELSE [item |-> Head(p), rest |-> Tail(p)]

RECURSIVE unmangled_path(_, _)
\* unmangled_path: collect() calls next until it returns None.
unmangled_path(p, esc) ==
    IF p = <<>> THEN <<>>
    ELSE LET n == NextItem(p, esc) IN <<n.item>> \o unmangled_path(n.rest, esc)

(***************************************************************************)
(* mangle_path of Linux/fs/seq_file.c, which unmangle.rs refers to: every  *)
(* byte in esc becomes a backslash and its three octal digits.             *)
(***************************************************************************)
Octal(c) == <<BS, D0 + (c \div 64), D0 + ((c \div 8) % 8), D0 + (c % 8)>>

RECURSIVE mangle_path(_, _)
mangle_path(p, esc) ==
    IF p = <<>> THEN <<>>
    ELSE (IF Head(p) \in esc THEN Octal(Head(p)) ELSE <<Head(p)>>)
         \o mangle_path(Tail(p), esc)

(***************************************************************************)
(* Bounds and input sets of the unmangling specification                   *)
(***************************************************************************)
MaxRawLen == 5
MaxOrigLen == 4

RawAlphabet == {BS, PLUS, D0, D1, D2, LA}
OrigAlphabet == {LF, BS, D0, D1, D2, LA}
EscapedSets == {{}, {LF}, {LF, BS}, {LF, D0}}

NoOrigin == [kernel |-> FALSE, p |-> <<>>, deleted |-> FALSE]

\* A call unmangled_path(src, escaped), either on an arbitrary slice or on
\* one that mangle_path produced from an original path.
InitUnmangle ==
    /\ escaped \in EscapedSets
    /\ \/ /\ src \in BSeq(RawAlphabet, MaxRawLen)
          /\ origin = NoOrigin
       \/ \E p \in BSeq(OrigAlphabet, MaxOrigLen) :
             /\ src = mangle_path(p, escaped)
             /\ origin = [kernel |-> TRUE, p |-> p, deleted |-> FALSE]
    /\ path = src
    /\ out = <<>>
    /\ pc = "iter"
    /\ ret = <<>>
    /\ Idle

\* next() returns Some(item); collect() pushes the item.
UnmangledPathNext ==
    /\ pc = "iter"
    /\ path # <<>>
    /\ LET n == NextItem(path, escaped) IN
          /\ path' = n.rest
          /\ out' = Append(out, n.item)
    /\ UNCHANGED <<pc, src, escaped, origin, ret>>
    /\ UNCHANGED <<parsed, buf, from, log>>

\* next() returns None; unmangled_path returns the collected vector.
UnmangledPathEnd ==
    /\ pc = "iter"
    /\ path = <<>>
    /\ pc' = "done"
    /\ ret' = out
    /\ UNCHANGED <<src, escaped, path, out, origin>>
    /\ UNCHANGED <<parsed, buf, from, log>>

NextUnmangle == UnmangledPathNext \/ UnmangledPathEnd

SpecUnmangle == InitUnmangle /\ [][NextUnmangle]_vars

(***************************************************************************)
(* Properties of unmangled_path                                            *)
(***************************************************************************)
IsOctalDigit(b) == b >= 48 /\ b <= 55

OctalValue(p) == (p[2] - 48) * 64 + (p[3] - 48) * 8 + (p[4] - 48)

\* An escape of a member of esc starts at the head of p: a backslash and
\* three octal digits whose value is in esc.
EscapeAtHead(p, esc) ==
    /\ Len(p) >= 4
    /\ p[1] = BS
    /\ \A i \in 2..4 : IsOctalDigit(p[i])
    /\ OctalValue(p) \in esc

RECURSIVE OctalScan(_, _)
OctalScan(p, esc) ==
    IF p = <<>> THEN <<>>
    ELSE IF EscapeAtHead(p, esc)
         THEN <<OctalValue(p)>> \o OctalScan(Skip(p, 4), esc)
         ELSE <<Head(p)>> \o OctalScan(Tail(p), esc)

NoBackslash(p) == \A i \in 1..Len(p) : p[i] # BS

\* C1: unmangled_path(path, escaped) is the left-to-right scan that replaces
\* path[i..i+4] by one byte exactly when path[i] is a backslash followed by
\* three octal digits '0'..'7' whose value is in escaped, and copies path[i]
\* in every other case (a '+' among the three bytes included).
C1_OctalScan == pc = "done" => ret = OctalScan(src, escaped)

\* C2: a byte sequence without a backslash is returned unchanged, whatever
\* the escaped set is.
C2_NoBackslashIdentity == (pc = "done" /\ NoBackslash(src)) => ret = src

\* C2 witness: "a012" with an escaped set holding the newline and a digit.
C2_Witness ==
    /\ pc = "done"
    /\ src = <<LA, D0, D1, D2>>
    /\ escaped = {LF, D0}
    /\ ret = src

\* C3: unmangled_path(mangle_path(p, E), E) = p whenever E contains the
\* backslash or p contains none.
C3_RoundTrip ==
    (pc = "done" /\ origin.kernel /\ (BS \in escaped \/ NoBackslash(origin.p)))
        => ret = origin.p

\* C3 witness: an original path with a newline and a backslash, both escaped,
\* has been mangled to 9 bytes and decoded back.
C3_Witness ==
    /\ pc = "done"
    /\ origin.kernel
    /\ origin.p = <<LF, BS, LA>>
    /\ escaped = {LF, BS}
    /\ Len(src) = 9
    /\ ret = origin.p

\* The round trip does fail when E lacks the backslash and p contains one:
\* the original path \012 is left alone by mangle_path and decoded to a
\* newline.
C3_LossyReached ==
    /\ pc = "done"
    /\ origin.kernel
    /\ origin.p = <<BS, D0, D1, D2>>
    /\ escaped = {LF}
    /\ ret = <<LF>>

\* The escapes decoded so far: a third of the bytes consumed beyond those
\* yielded.
Escapes == (Len(src) - Len(path) - Len(out)) \div 3

\* C27: a call of next on a non-empty remaining path yields one byte and
\* shortens the remaining path by 1 byte, or by 4 where it decoded an
\* escape; on the empty remaining path it returns None and leaves the path
\* empty, so that it does the same in every later call.  The output is
\* never longer than the input: it is shorter by 3 for every decoded
\* escape.
C27_NextShortens ==
    [][/\ (pc = "iter" /\ path # <<>>) =>
              /\ pc' = "iter"
              /\ Len(out') = Len(out) + 1
              /\ SubSeq(out', 1, Len(out)) = out
              /\ Len(path) - Len(path') \in {1, 4}
              /\ path' = Skip(path, Len(path) - Len(path'))
              /\ Escapes' = Escapes + (IF Len(path) - Len(path') = 4 THEN 1 ELSE 0)
              /\ Len(path) - Len(path') = 4 =>
                     (path[1] = BS /\ out'[Len(out')] \in escaped)
       /\ (pc = "iter" /\ path = <<>>) =>
              /\ pc' = "done"
              /\ path' = <<>>
              /\ ret' = out
              /\ Len(ret') = Len(src) - 3 * Escapes
              /\ Len(ret') <= Len(src)
       /\ Len(out') + Len(path') + 3 * Escapes' = Len(src)
       /\ Len(out') <= Len(src)]_vars

\* C27 witness: "\\012a" was decoded with two calls, one escape.
C27_Witness ==
    /\ pc = "done"
    /\ "kernel" \in DOMAIN origin
    /\ src = Octal(LF) \o <<LA>>
    /\ escaped = {LF}
    /\ ret = <<LF, LA>>
    /\ path = <<>>
    /\ Escapes = 1

(***************************************************************************)
(* pid/maps.rs: the pathname field of a file-backed mapping                *)
(***************************************************************************)
\* b" (deleted)"
DELETED_SUFFIX == <<32, 40, 100, 101, 108, 101, 116, 101, 100, 41>>

\* <[u8]>::ends_with
ends_with(bytes, suffix) ==
    /\ Len(bytes) >= Len(suffix)
    /\ Skip(bytes, Len(bytes) - Len(suffix)) = suffix

RECURSIVE truncate_suffix_All(_, _)
truncate_suffix_All(bytes, suffix) ==
    IF ends_with(bytes, suffix)
    THEN [bytes |-> truncate_suffix_All(
                        Take(bytes, Len(bytes) - Len(suffix)), suffix).bytes,
          found |-> TRUE]
    ELSE [bytes |-> bytes, found |-> FALSE]

\* truncate_suffix: the vector after the call and the value returned.
truncate_suffix(bytes, suffix) ==
    IF ends_with(bytes, suffix)
    THEN [bytes |-> Take(bytes, Len(bytes) - Len(suffix)), found |-> TRUE]
    ELSE [bytes |-> bytes, found |-> FALSE]

parse_file_pathname_NoUnmangle(bytes) ==
    LET t == truncate_suffix(bytes, DELETED_SUFFIX)
    IN  [path |-> t.bytes, is_deleted |-> t.found]

\* parse_file_pathname trimming a carriage return, space or tab at the end.
parse_file_pathname_TrimEnd(bytes) ==
    LET d == unmangled_path(bytes, {LF})
        l == IF d # <<>> /\ d[Len(d)] \in {13, SP, TAB} THEN Len(d) - 1 ELSE Len(d)
        t == truncate_suffix(Take(d, l), DELETED_SUFFIX)
    IN  [path |-> t.bytes, is_deleted |-> t.found]

\* parse_file_pathname decoding the escape of ')' as well.
parse_file_pathname_EscapeParen(bytes) ==
    LET t == truncate_suffix(unmangled_path(bytes, {LF, 41}), DELETED_SUFFIX)
    IN  [path |-> t.bytes, is_deleted |-> t.found]

parse_file_pathname(bytes) ==
    LET t == truncate_suffix(unmangled_path(bytes, {LF}), DELETED_SUFFIX)
    IN  [path |-> t.bytes, is_deleted |-> t.found]

(***************************************************************************)
(* What the kernel writes into the pathname field (FileMap documentation:  *)
(* Linux/fs/dcache.c appends " (deleted)" to the name of an unlinked file, *)
(* Linux/fs/seq_file.c then mangles the newline).                          *)
(***************************************************************************)
kernel_pathname(name, deleted) ==
    mangle_path(IF deleted THEN name \o DELETED_SUFFIX ELSE name, {LF})

\* The names of the FileMap documentation: "/tmp/a\nfile" with a real
\* newline, and "/tmp/a\\012file" with a backslash and three digits.
TmpANewlineFile == <<47, 116, 109, 112, 47, 97, 10, 102, 105, 108, 101>>

TmpAEscapeFile ==
    <<47, 116, 109, 112, 47, 97, 92, 48, 49, 50, 102, 105, 108, 101>>

DocumentedStates ==
    { [kernel |-> TRUE, p |-> TmpANewlineFile, deleted |-> TRUE],
      [kernel |-> TRUE, p |-> TmpANewlineFile \o DELETED_SUFFIX,
       deleted |-> FALSE],
      [kernel |-> TRUE, p |-> TmpAEscapeFile, deleted |-> TRUE],
      [kernel |-> TRUE, p |-> TmpAEscapeFile \o DELETED_SUFFIX,
       deleted |-> FALSE] }

(***************************************************************************)
(* Bounds and input sets of the pathname specification                     *)
(***************************************************************************)
MaxCoreLen == 4
MaxSuffixes == 2
MaxNameLen == 2

CoreAlphabet == {BS, D0, D1, D2, LA}
NameAlphabet == {LF, BS, LA}

\* Endings that are, or nearly are, the deleted marker.
Endings ==
    { <<>>,
      DELETED_SUFFIX,
      Tail(DELETED_SUFFIX),
      Take(DELETED_SUFFIX, 9),
      Take(DELETED_SUFFIX, 9) \o Octal(41),
      DELETED_SUFFIX \o <<SP>> }

RECURSIVE Repeat(_, _)
Repeat(s, k) == IF k = 0 THEN <<>> ELSE s \o Repeat(s, k - 1)

RawFields ==
    { core \o Repeat(DELETED_SUFFIX, k) \o e :
        core \in BSeq(CoreAlphabet, MaxCoreLen), k \in 0..(MaxSuffixes - 1),
        e \in Endings }

KernelStates ==
    DocumentedStates \cup
    { [kernel |-> TRUE, p |-> n \o e, deleted |-> d] :
        n \in BSeq(NameAlphabet, MaxNameLen), e \in {<<>>, DELETED_SUFFIX},
        d \in BOOLEAN }

\* A call parse_file_pathname(src) on an arbitrary field or on one the
\* kernel wrote.
InitPathname ==
    /\ \/ /\ src \in RawFields
          /\ origin = NoOrigin
       \/ /\ origin \in KernelStates
          /\ src = kernel_pathname(origin.p, origin.deleted)
    /\ escaped = {LF}
    /\ path = src
    /\ out = <<>>
    /\ pc = "call"
    /\ ret = <<>>
    /\ Idle

ParseFilePathname ==
    /\ pc = "call"
    /\ LET r == parse_file_pathname(src) IN
          /\ ret' = r
          /\ out' = r.path
    /\ path' = <<>>
    /\ pc' = "done"
    /\ UNCHANGED <<src, escaped, origin>>
    /\ UNCHANGED <<parsed, buf, from, log>>

NextPathname == ParseFilePathname

SpecPathname == InitPathname /\ [][NextPathname]_vars

(***************************************************************************)
(* Properties of parse_file_pathname                                       *)
(***************************************************************************)
\* The last 10 bytes of s spell " (deleted)".
EndsInDeleted(s) ==
    /\ Len(s) >= 10
    /\ \A i \in 1..10 : s[Len(s) - 10 + i] = DELETED_SUFFIX[i]

\* C4: parse_file_pathname unmangles with {newline}; is_deleted is true
\* exactly when the decoded bytes end in " (deleted)", and the path is the
\* decoded bytes with exactly one such suffix removed, or the decoded
\* bytes themselves when there is none.
C4_PathnameDecoder ==
    pc = "done" =>
        LET dec == unmangled_path(src, {LF}) IN
        /\ ret.is_deleted = EndsInDeleted(dec)
        /\ ret.is_deleted => ret.path \o DELETED_SUFFIX = dec
        /\ ~ret.is_deleted => ret.path = dec

\* C4 witness: "\012 (deleted) (deleted)" keeps the first marker.
C4_Witness ==
    /\ pc = "done"
    /\ src = <<BS, D0, D1, D2>> \o DELETED_SUFFIX \o DELETED_SUFFIX
    /\ ret = [path |-> <<LF>> \o DELETED_SUFFIX, is_deleted |-> TRUE]

\* C5: the four states of the FileMap documentation all give the field
\* "/tmp/a\\012file (deleted)", which is decoded to the path "/tmp/a\nfile"
\* with is_deleted = true.
C5_DocumentedAmbiguity ==
    origin \in DocumentedStates =>
        /\ src = TmpAEscapeFile \o DELETED_SUFFIX
        /\ pc = "done" =>
              ret = [path |-> TmpANewlineFile, is_deleted |-> TRUE]

\* C5 witness: the existing file named "/tmp/a\\012file (deleted)" has been
\* decoded.
C5_Witness ==
    /\ pc = "done"
    /\ origin = [kernel |-> TRUE, p |-> TmpAEscapeFile \o DELETED_SUFFIX,
                 deleted |-> FALSE]
    /\ ret.path = TmpANewlineFile
    /\ ret.is_deleted

\* C26: with the escaped set {newline} unmangling neither creates nor
\* destroys the " (deleted)" suffix: is_deleted is true exactly when the
\* raw field ends in " (deleted)", and the path is what unmangling gives for
\* the raw field without that suffix.
C26_SuffixCommutes ==
    ("kernel" \in DOMAIN origin /\ pc = "done" /\ escaped = {LF}) =>
        /\ ret.is_deleted = EndsInDeleted(src)
        /\ ret.path = unmangled_path(IF EndsInDeleted(src)
                                     THEN Take(src, Len(src) - 10)
                                     ELSE src, {LF})

\* C26 witness: the raw field is an escaped newline and the suffix.
C26_Witness ==
    /\ pc = "done"
    /\ origin = NoOrigin
    /\ src = Octal(LF) \o DELETED_SUFFIX
    /\ ret = [path |-> <<LF>>, is_deleted |-> TRUE]

\* A raw field that ends in " (deleted" and the escape of ')' is not deleted
\* and keeps its escape.
C26_EscapedParenReached ==
    /\ pc = "done"
    /\ origin = NoOrigin
    /\ src = Take(DELETED_SUFFIX, 9) \o Octal(41)
    /\ ret = [path |-> src, is_deleted |-> FALSE]

(***************************************************************************)
(* The nom combinators the parsers are built from.  An IResult is Done     *)
(* with the remaining input and a value, or Error, or Incomplete.          *)
(***************************************************************************)
Done(rest, val) == [st |-> "Done", rest |-> rest, val |-> val]

Error == [st |-> "Error", rest |-> <<>>, val |-> 0]

Incomplete == [st |-> "Incomplete", rest |-> <<>>, val |-> 0]

\* The byte classes of nom's is_digit, is_alphanumeric, is_hex_digit and
\* is_space.
is_digit == 48..57

is_alphanumeric == (48..57) \cup (97..122) \cup (65..90)

is_hex_digit == (48..57) \cup (97..102) \cup (65..70)

is_space == {SP, TAB}

\* The length of the longest prefix of input whose bytes are in class.
PrefixLen(input, class) ==
    IF \A i \in 1..Len(input) : input[i] \in class THEN Len(input)
    ELSE (CHOOSE i \in 1..Len(input) :
              /\ input[i] \notin class
              /\ \A j \in 1..(i - 1) : input[j] \in class) - 1

\* nom's digit, alphanumeric, space: one or more bytes of the class; on an
\* empty input they ask for more (Incomplete), which every caller treats as
\* a failure just like Error.
many1(input, class) ==
    IF input = <<>> THEN Incomplete
    ELSE LET n == PrefixLen(input, class) IN
         IF n = 0 THEN Error
         ELSE Done(Skip(input, n), Take(input, n))

digit(input) == many1(input, is_digit)

alphanumeric(input) == many1(input, is_alphanumeric)

hex_digit(input) == many1(input, is_hex_digit)

space(input) == many1(input, is_space)

\* tag!(t)
tag(input, t) ==
    LET n == IF Len(input) < Len(t) THEN Len(input) ELSE Len(t) IN
    IF Take(input, n) # Take(t, n) THEN Error
    ELSE IF Len(input) < Len(t) THEN Incomplete
    ELSE Done(Skip(input, Len(t)), t)

\* one_of!(set)
one_of(input, set) ==
    IF input = <<>> THEN Incomplete
    ELSE IF Head(input) \in set THEN Done(Tail(input), Head(input))
    ELSE Error

\* rest
rest(input) == Done(<<>>, input)

\* map_res!(p, |s| from_str_radix(s, radix)) applied to the result r of p.
map_res_radix(r, radix, width) ==
    IF r.st # "Done" THEN r
    ELSE LET v == from_str_radix(r.val, radix, width) IN
         IF v.ok THEN Done(r.rest, v.val) ELSE Error

(***************************************************************************)
(* parsers.rs                                                              *)
(***************************************************************************)
parse_u64_Radix16(input) == map_res_radix(digit(input), 16, U64_BYTES)

parse_u64(input) == map_res_radix(digit(input), 10, U64_BYTES)

parse_u32_hex(input) == map_res_radix(alphanumeric(input), 16, U32_BYTES)

parse_u64_hex(input) == map_res_radix(alphanumeric(input), 16, U64_BYTES)

\* parse_usize_hex is imported by pid/maps.rs; usize is 64 bits wide.
parse_usize_hex(input) == map_res_radix(hex_digit(input), 16, U64_BYTES)

(***************************************************************************)
(* pid/maps.rs: one line of /proc/[pid]/maps                               *)
(***************************************************************************)
\* libc::makedev on Linux: a dev_t packs the low 8 bits of minor into bits
\* 0..7, the low 12 bits of major into bits 8..19, the rest of minor into
\* bits 20..43 and the rest of major into bits 44..63.  The four bit fields
\* are kept apart.
makedev(major, minor) ==
    [b44 |-> major \div 4096, b20 |-> minor \div 256,
     b8 |-> major % 4096, b0 |-> minor % 256]

NULL_DEV == [b44 |-> 0, b20 |-> 0, b8 |-> 0, b0 |-> 0]

\* String::from_utf8_lossy: the bytes of the resulting String.  Every
\* maximal ill-formed sequence becomes U+FFFD.
REPLACEMENT == <<239, 191, 189>>

utf8_char_width(b) ==
    IF b < 128 THEN 1
    ELSE IF b >= 194 /\ b <= 223 THEN 2
    ELSE IF b >= 224 /\ b <= 239 THEN 3
    ELSE IF b >= 240 /\ b <= 244 THEN 4
    ELSE 0

safe_get(s, i) == IF i <= Len(s) THEN s[i] ELSE 0

is_cont(b) == b >= 128 /\ b <= 191

\* The second byte of a three- or four-byte sequence that starts with first.
second_ok(first, second) ==
    \/ first = 224 /\ second >= 160 /\ second <= 191
    \/ first >= 225 /\ first <= 236 /\ is_cont(second)
    \/ first = 237 /\ second >= 128 /\ second <= 159
    \/ first >= 238 /\ first <= 239 /\ is_cont(second)
    \/ first = 240 /\ second >= 144 /\ second <= 191
    \/ first >= 241 /\ first <= 243 /\ is_cont(second)
    \/ first = 244 /\ second >= 128 /\ second <= 143

\* The chunk at the head of s: a well-formed character of n bytes, or an
\* ill-formed sequence of n bytes.
utf8_chunk(s) ==
    LET w == utf8_char_width(s[1]) IN
    IF w = 1 THEN [valid |-> TRUE, n |-> 1]
    ELSE IF w = 2 THEN
        IF is_cont(safe_get(s, 2)) THEN [valid |-> TRUE, n |-> 2]
        ELSE [valid |-> FALSE, n |-> 1]
    ELSE IF w = 3 THEN
        IF ~second_ok(s[1], safe_get(s, 2)) THEN [valid |-> FALSE, n |-> 1]
        ELSE IF ~is_cont(safe_get(s, 3)) THEN [valid |-> FALSE, n |-> 2]
        ELSE [valid |-> TRUE, n |-> 3]
    ELSE IF w = 4 THEN
        IF ~second_ok(s[1], safe_get(s, 2)) THEN [valid |-> FALSE, n |-> 1]
        ELSE IF ~is_cont(safe_get(s, 3)) THEN [valid |-> FALSE, n |-> 2]
        ELSE IF ~is_cont(safe_get(s, 4)) THEN [valid |-> FALSE, n |-> 3]
        ELSE [valid |-> TRUE, n |-> 4]
    ELSE [valid |-> FALSE, n |-> 1]

RECURSIVE from_utf8_lossy(_)
from_utf8_lossy(s) ==
    IF s = <<>> THEN <<>>
    ELSE LET c == utf8_chunk(s) IN
         (IF c.valid THEN Take(s, c.n) ELSE REPLACEMENT)
             \o from_utf8_lossy(Skip(s, c.n))

\* <[u8]>::starts_with
starts_with(bytes, prefix) ==
    Len(bytes) >= Len(prefix) /\ Take(bytes, Len(prefix)) = prefix

\* b"[heap]", b"[stack", b"[vdso]", b"[vsyscall]", b"[vvar]"
HEAP_TAG == <<91, 104, 101, 97, 112, 93>>

STACK_PREFIX == <<91, 115, 116, 97, 99, 107>>

VDSO_TAG == <<91, 118, 100, 115, 111, 93>>

VSYSCALL_TAG == <<91, 118, 115, 121, 115, 99, 97, 108, 108, 93>>

VVAR_TAG == <<91, 118, 118, 97, 114, 93>>

\* MemoryMapKind
Kind(t) == [tag |-> t]

Unknown(text) == [tag |-> "Unknown", text |-> text]

File(offset, dev, inode, p, is_deleted) ==
    [tag |-> "File", offset |-> offset, dev |-> dev, inode |-> inode,
     path |-> p, is_deleted |-> is_deleted]

parse_anonymous_pathname_ExactStack(bytes) ==
    IF bytes = <<>> THEN Kind("Anonymous")
    ELSE IF bytes = HEAP_TAG THEN Kind("Heap")
    ELSE IF bytes = STACK_PREFIX \o <<93>> THEN Kind("Stack")
    ELSE IF bytes = VDSO_TAG THEN Kind("Vdso")
    ELSE IF bytes = VSYSCALL_TAG THEN Kind("Vsyscall")
    ELSE IF bytes = VVAR_TAG THEN Kind("Vvar")
    ELSE Unknown(from_utf8_lossy(bytes))

parse_anonymous_pathname_Ascii(bytes) ==
    IF bytes = <<>> THEN Kind("Anonymous")
    ELSE IF bytes = HEAP_TAG THEN Kind("Heap")
    ELSE IF starts_with(bytes, STACK_PREFIX) THEN Kind("Stack")
    ELSE IF bytes = VDSO_TAG THEN Kind("Vdso")
    ELSE IF bytes = VSYSCALL_TAG THEN Kind("Vsyscall")
    ELSE IF bytes = VVAR_TAG THEN Kind("Vvar")
    ELSE Unknown([i \in 1..Len(bytes) |->
                      IF bytes[i] < 128 THEN bytes[i] ELSE 63])

parse_anonymous_pathname(bytes) ==
    IF bytes = <<>> THEN Kind("Anonymous")
    ELSE IF bytes = HEAP_TAG THEN Kind("Heap")
    ELSE IF starts_with(bytes, STACK_PREFIX) THEN Kind("Stack")
    ELSE IF bytes = VDSO_TAG THEN Kind("Vdso")
    ELSE IF bytes = VSYSCALL_TAG THEN Kind("Vsyscall")
    ELSE IF bytes = VVAR_TAG THEN Kind("Vvar")
    ELSE Unknown(from_utf8_lossy(bytes))

\* perms_read, perms_write, perms_execute, perms_shared
perms_flag(input, yes, no) ==
    LET r == one_of(input, {yes, no}) IN
    IF r.st = "Done" THEN Done(r.rest, r.val = yes) ELSE r

\* perms_read taking any of the letters of the first three positions.
perms_read_AnyLetter(input) ==
    LET r == one_of(input, {114, 119, 120, MINUS}) IN
    IF r.st = "Done" THEN Done(r.rest, r.val = 114) ELSE r

perms_read(input) == perms_flag(input, 114, MINUS)

perms_write(input) == perms_flag(input, 119, MINUS)

perms_execute(input) == perms_flag(input, 120, MINUS)

perms_shared(input) == perms_flag(input, 115, 112)

\* The first result of a do_parse! sequence that is not Done; 0 if all are.
FirstFailure(steps) ==
    IF \A i \in 1..Len(steps) : steps[i].st = "Done" THEN 0
    ELSE CHOOSE i \in 1..Len(steps) :
             /\ steps[i].st # "Done"
             /\ \A j \in 1..(i - 1) : steps[j].st = "Done"

parse_dev(input) ==
    LET major == parse_u32_hex(input)
        colon == tag(major.rest, <<58>>)
        minor == parse_u32_hex(colon.rest)
        steps == <<major, colon, minor>>
        f == FirstFailure(steps)
    IN  IF f = 0 THEN Done(minor.rest, makedev(major.val, minor.val))
        ELSE steps[f]

\* The kind of a record, from its parsed fields.
entry_kind_ByInode(offset, dev, inode, pathname) ==
    IF inode = 0 THEN parse_anonymous_pathname(pathname)
    ELSE LET f == parse_file_pathname(pathname) IN
         File(offset, dev, inode, f.path, f.is_deleted)

entry_kind_DecodeAll(offset, dev, inode, pathname) ==
    LET f == parse_file_pathname(pathname) IN
    IF dev = NULL_DEV THEN parse_anonymous_pathname(f.path)
    ELSE File(offset, dev, inode, f.path, f.is_deleted)

entry_kind(offset, dev, inode, pathname) ==
    IF dev = NULL_DEV THEN parse_anonymous_pathname(pathname)
    ELSE LET f == parse_file_pathname(pathname) IN
         File(offset, dev, inode, f.path, f.is_deleted)

\* A range with its bounds put in order.
Range_Ordered(start, end) ==
    IF start <= end THEN [start |-> start, end |-> end]
    ELSE [start |-> end, end |-> start]

\* ops::Range { start: start, end: end }
Range(start, end) == [start |-> start, end |-> end]

parse_maps_entry(input) ==
    LET start == parse_usize_hex(input)
        dash == tag(start.rest, <<MINUS>>)
        end == parse_usize_hex(dash.rest)
        sp1 == space(end.rest)
        is_readable == perms_read(sp1.rest)
        is_writable == perms_write(is_readable.rest)
        is_executable == perms_execute(is_writable.rest)
        is_shared == perms_shared(is_executable.rest)
        sp2 == space(is_shared.rest)
        offset == parse_u64_hex(sp2.rest)
        sp3 == space(offset.rest)
        dev == parse_dev(sp3.rest)
        sp4 == space(dev.rest)
        inode == parse_u64(sp4.rest)
        sp5 == space(inode.rest)
        pathname == rest(sp5.rest)
        steps == <<start, dash, end, sp1, is_readable, is_writable,
                   is_executable, is_shared, sp2, offset, sp3, dev, sp4,
                   inode, sp5, pathname>>
        f == FirstFailure(steps)
    IN  IF f # 0 THEN steps[f]
        ELSE Done(pathname.rest,
                  [range |-> Range(start.val, end.val),
                   is_readable |-> is_readable.val,
                   is_writable |-> is_writable.val,
                   is_executable |-> is_executable.val,
                   is_shared |-> is_shared.val,
                   kind |-> entry_kind(offset.val, dev.val, inode.val,
                                       pathname.val)])

(***************************************************************************)
(* The line the kernel writes for a mapping (show_map_vma in               *)
(* Linux/fs/proc/task_mmu.c): start, end and offset in hexadecimal padded  *)
(* to 8 digits, major and minor in hexadecimal padded to 2 digits, the     *)
(* inode in decimal, one space, padding, and the pathname.                 *)
(***************************************************************************)
RECURSIVE ToDigits(_, _)
ToDigits(n, radix) ==
    IF n < radix THEN <<n>>
    ELSE Append(ToDigits(n \div radix, radix), n % radix)

DigitChar(d, upper) ==
    IF d < 10 THEN 48 + d ELSE IF upper THEN 65 + d - 10 ELSE 97 + d - 10

\* n in the given radix, padded with zeros to at least width characters.
FormatNumber(n, radix, width, upper) ==
    LET ds == ToDigits(n, radix)
        zeros == IF Len(ds) < width THEN width - Len(ds) ELSE 0
    IN  [i \in 1..zeros |-> 48] \o
        [i \in 1..Len(ds) |-> DigitChar(ds[i], upper)]

show_map_vma(v) ==
    FormatNumber(v.start, 16, 8, v.upper) \o <<MINUS>> \o
    FormatNumber(v.end, 16, 8, v.upper) \o <<SP>> \o v.perms \o <<SP>> \o
    FormatNumber(v.offset, 16, 8, v.upper) \o <<SP>> \o
    FormatNumber(v.major, 16, 2, v.upper) \o <<58>> \o
    FormatNumber(v.minor, 16, 2, v.upper) \o <<SP>> \o
    FormatNumber(v.inode, 10, 1, FALSE) \o <<SP>> \o
    [i \in 1..v.pad |-> SP] \o v.name

(***************************************************************************)
(* Pathname fields of the maps specification                               *)
(***************************************************************************)
\* ''
NameEmpty == <<>>

\* '[heap]'
NameHeap == <<91, 104, 101, 97, 112, 93>>

\* '[stack]'
NameStack == <<91, 115, 116, 97, 99, 107, 93>>

\* '[stack:1234]'
NameThreadStack == <<91, 115, 116, 97, 99, 107, 58, 49, 50, 51, 52, 93>>

\* '[stackx'
NameStackX == <<91, 115, 116, 97, 99, 107, 120>>

\* '[stac'
NameStac == <<91, 115, 116, 97, 99>>

\* '[vdso]'
NameVdso == <<91, 118, 100, 115, 111, 93>>

\* '[vsyscall]'
NameVsyscall == <<91, 118, 115, 121, 115, 99, 97, 108, 108, 93>>

\* '[vvar]'
NameVvar == <<91, 118, 118, 97, 114, 93>>

\* '[vvar]x'
NameVvarX == <<91, 118, 118, 97, 114, 93, 120>>

\* '[heap] (deleted)'
NameHeapDeleted == <<91, 104, 101, 97, 112, 93, 32, 40, 100, 101, 108, 101, 116, 101, 100, 41>>

\* '[a\012]'
NameEscaped == <<91, 97, 92, 48, 49, 50, 93>>

\* '[foo]'
NameOther == <<91, 102, 111, 111, 93>>

\* '/bin/cat'
NameBinCat == <<47, 98, 105, 110, 47, 99, 97, 116>>

\* '/bin/cat (deleted)'
NameBinCatDeleted == <<47, 98, 105, 110, 47, 99, 97, 116, 32, 40, 100, 101, 108, 101, 116, 101, 100, 41>>

\* '/a\012b'
NameFileEscaped == <<47, 97, 92, 48, 49, 50, 98>>

\* '/bin/cat\r'
NameBinCatCr == <<47, 98, 105, 110, 47, 99, 97, 116, 13>>

\* '/x (deleted) (deleted)'
NameTwiceDeleted == <<47, 120, 32, 40, 100, 101, 108, 101, 116, 101, 100, 41, 32, 40, 100, 101, 108, 101, 116, 101, 100, 41>>

\* '\xff'
NameByteFF == <<255>>

\* '/a\012'
NameEndsEscape == <<47, 97, 92, 48, 49, 50>>

\* '/a\+12'
NameEndsPlus == <<47, 97, 92, 43, 49, 50>>

\* '/a '
NameEndsSpace == <<47, 97, 32>>

\* '/a' and a tab
NameEndsTab == <<47, 97, 9>>

\* '/x (deleted)\r'
NameDeletedCr == <<47, 120, 32, 40, 100, 101, 108, 101, 116, 101, 100, 41, 13>>

\* '[\xc3\xa9]'
NameTwoByte == <<91, 195, 169, 93>>

\* '\xc3]'
NameCutTwoByte == <<195, 93>>

\* '\xe2\x82'
NameCutThreeByte == <<226, 130>>

\* '\xa9'
NameLoneCont == <<169>>

\* '\xed\xa0\x80'
NameSurrogate == <<237, 160, 128>>

\* '\xf0\x9f\x92\x96'
NameFourByte == <<240, 159, 146, 150>>

\* '\xe0\xa0\x80'
NameThreeByte == <<224, 160, 128>>

Names ==
    {NameEmpty, NameHeap, NameStack, NameThreadStack, NameStackX, NameStac,
     NameVdso, NameVsyscall, NameVvar, NameVvarX, NameHeapDeleted,
     NameEscaped, NameOther, NameBinCat, NameBinCatDeleted, NameFileEscaped,
     NameBinCatCr, NameTwiceDeleted, NameByteFF, NameTwoByte,
     NameCutTwoByte, NameCutThreeByte, NameLoneCont, NameSurrogate,
     NameFourByte, NameThreeByte, NameEndsEscape, NameEndsPlus,
     NameEndsSpace, NameEndsTab, NameDeletedCr}

(***************************************************************************)
(* Bounds and input sets of the maps specification                         *)
(***************************************************************************)
MaxPad == 1

\* 0xab-0xcd, 0x1000-0x1000, 0xff-0x10
Ranges == {<<171, 205>>, <<4096, 4096>>, <<255, 16>>}

Offsets == {0, 126976}

\* major:minor 00:00, fd:01, 00:01, 08:00
Devices == {<<0, 0>>, <<253, 1>>, <<0, 1>>, <<8, 0>>}

Inodes == {0, 8650756}

\* rwxs, rwxp, ..., ---p
Permissions ==
    {<<r, w, x, s>> : r \in {114, MINUS}, w \in {119, MINUS},
                      x \in {120, MINUS}, s \in {115, 112}}

Mappings ==
    [kernel : {TRUE}, range : Ranges, perms : Permissions, offset : Offsets,
     device : Devices, inode : Inodes, pad : 0..MaxPad, upper : BOOLEAN,
     name : Names]

LineOf(m) ==
    show_map_vma([start |-> m.range[1], end |-> m.range[2],
                  perms |-> m.perms, offset |-> m.offset,
                  major |-> m.device[1], minor |-> m.device[2],
                  inode |-> m.inode, pad |-> m.pad, upper |-> m.upper,
                  name |-> m.name])

\* 000000ab-000000cd r-xp 00000000 fd:01 8650756 /bin/cat
SampleMapping ==
    [kernel |-> TRUE, range |-> <<171, 205>>,
     perms |-> <<114, MINUS, 120, 112>>, offset |-> 0,
     device |-> <<253, 1>>, inode |-> 8650756, pad |-> 0, upper |-> FALSE,
     name |-> NameBinCat]

\* The sample line cut short after any number of bytes.
CutLines ==
    {Take(LineOf(SampleMapping), n) : n \in 0..(Len(LineOf(SampleMapping)) - 1)}

\* r, w, x, s, p, - and a
PermAlphabet == {114, 119, 120, 115, 112, MINUS, LA}

\* Every permission field of four characters, and the well-formed ones with
\* the last character missing or with a fifth character.
PermFields ==
    [1..4 -> PermAlphabet] \cup {Take(q, 3) : q \in Permissions} \cup
    {q \o <<c>> : q \in Permissions, c \in PermAlphabet}

\* The sample line with any of the permission fields.
PermLines == {[SampleMapping EXCEPT !.kernel = FALSE, !.perms = q] : q \in PermFields}

\* A call parse_maps_entry(src) on a line written for a mapping, on the
\* sample line with some permission field, or on a line cut short.
InitMaps ==
    /\ \/ /\ origin \in Mappings \cup PermLines
          /\ src = LineOf(origin)
       \/ /\ src \in CutLines
          /\ origin = NoOrigin
    /\ escaped = {LF}
    /\ path = src
    /\ out = <<>>
    /\ pc = "call"
    /\ ret = <<>>
    /\ Idle

ParseMapsEntry ==
    /\ pc = "call"
    /\ ret' = parse_maps_entry(src)
    /\ path' = <<>>
    /\ pc' = "done"
    /\ UNCHANGED <<src, escaped, out, origin>>
    /\ UNCHANGED <<parsed, buf, from, log>>

NextMaps == ParseMapsEntry

SpecMaps == InitMaps /\ [][NextMaps]_vars

(***************************************************************************)
(* Properties of parse_maps_entry                                          *)
(***************************************************************************)
\* A line written for a mapping has been parsed.
ParsedMapping == pc = "done" /\ origin.kernel

AnonymousDevice == origin.device = <<0, 0>>

\* C6: a line of the documented form whose device is not 00:00 gives a
\* record with range [start, end) read as hexadecimal, the four flags taken
\* from the four permission characters in order, and kind File with the
\* offset (hexadecimal), dev = makedev(major, minor), the inode (decimal)
\* and the path and is_deleted that parse_file_pathname gives for the
\* pathname after the separating spaces.
C6_FileEntry ==
    (ParsedMapping /\ ~AnonymousDevice) =>
        /\ ret.st = "Done"
        /\ ret.rest = <<>>
        /\ ret.val.range = [start |-> origin.range[1], end |-> origin.range[2]]
        /\ ret.val.is_readable = (origin.perms[1] = 114)
        /\ ret.val.is_writable = (origin.perms[2] = 119)
        /\ ret.val.is_executable = (origin.perms[3] = 120)
        /\ ret.val.is_shared = (origin.perms[4] = 115)
        /\ ret.val.kind.tag = "File"
        /\ ret.val.kind.offset = origin.offset
        /\ ret.val.kind.dev = makedev(origin.device[1], origin.device[2])
        /\ ret.val.kind.inode = origin.inode
        /\ ret.val.kind.path = parse_file_pathname(origin.name).path
        /\ ret.val.kind.is_deleted = parse_file_pathname(origin.name).is_deleted

\* C6 witness: 000000FF-00000010 rw-s 0001F000 FD:01 8650756  /bin/cat (deleted)
C6_Witness ==
    /\ ParsedMapping
    /\ origin.device = <<253, 1>>
    /\ origin.upper
    /\ origin.pad = 1
    /\ origin.range = <<255, 16>>
    /\ origin.offset = 126976
    /\ origin.perms = <<114, 119, MINUS, 115>>
    /\ origin.name = NameBinCatDeleted
    /\ ret.st = "Done"
    /\ ret.val.kind.tag = "File"
    /\ ret.val.kind.inode = 8650756
    /\ ret.val.kind.path = NameBinCat
    /\ ret.val.kind.is_deleted

\* C7 as stated: a record is anonymous (its kind is not File) exactly when
\* its inode field is 0, whatever the device field is.
C7_AnonymousByInode ==
    ParsedMapping =>
        /\ ret.st = "Done"
        /\ (ret.val.kind.tag # "File") = (origin.inode = 0)

\* C7 amended: a record is anonymous (its kind is not File) exactly when its
\* device is 00:00, whatever the inode field is.
C7_AnonymousByDevice ==
    ParsedMapping =>
        /\ ret.st = "Done"
        /\ (ret.val.kind.tag # "File") = (origin.device = <<0, 0>>)

\* C7 witness: device 00:00 with inode 8650756 is not a File record.
C7_Witness ==
    /\ ParsedMapping
    /\ origin.device = <<0, 0>>
    /\ origin.inode = 8650756
    /\ origin.name = NameBinCat
    /\ ret.st = "Done"
    /\ ret.val.kind.tag = "Unknown"

\* C7: the other half, inode 0 on device 00:01 is a File record.
C7_FileWithInodeZero ==
    /\ ParsedMapping
    /\ origin.device = <<0, 1>>
    /\ origin.inode = 0
    /\ ret.st = "Done"
    /\ ret.val.kind.tag = "File"

\* The pathname begins with the bytes "[stack".
BeginsWithStack(n) ==
    /\ Len(n) >= 6
    /\ \A i \in 1..6 : n[i] = NameStack[i]

\* The cases of C8 that a pathname falls under.
CasesOf(n) ==
    {c \in {"Anonymous", "Heap", "Stack", "Vdso", "Vsyscall", "Vvar"} :
        \/ c = "Anonymous" /\ n = NameEmpty
        \/ c = "Heap" /\ n = NameHeap
        \/ c = "Stack" /\ BeginsWithStack(n)
        \/ c = "Vdso" /\ n = NameVdso
        \/ c = "Vsyscall" /\ n = NameVsyscall
        \/ c = "Vvar" /\ n = NameVvar}

\* C8: on a line with device 00:00 and inode 0 the kind follows from the
\* pathname: empty gives Anonymous, "[heap]" Heap, a pathname beginning with
\* "[stack" Stack, "[vdso]" Vdso, "[vsyscall]" Vsyscall, "[vvar]" Vvar, and
\* every other pathname Unknown; no pathname falls under two cases.
C8_AnonymousKinds ==
    (ParsedMapping /\ AnonymousDevice /\ origin.inode = 0) =>
        /\ ret.st = "Done"
        /\ Cardinality(CasesOf(origin.name)) <= 1
        /\ \A c \in CasesOf(origin.name) : ret.val.kind.tag = c
        /\ CasesOf(origin.name) = {} => ret.val.kind.tag = "Unknown"

\* C8 witness: "[stack:1234]" is Stack.
C8_Witness ==
    /\ ParsedMapping
    /\ AnonymousDevice
    /\ origin.inode = 0
    /\ origin.name = NameThreadStack
    /\ ret.val.kind = Kind("Stack")

\* One well-formed UTF-8 character (Unicode, table 3-7).
WellFormedChar(c) ==
    LET cont(b) == b >= 128 /\ b <= 191 IN
    \/ Len(c) = 1 /\ c[1] <= 127
    \/ Len(c) = 2 /\ c[1] >= 194 /\ c[1] <= 223 /\ cont(c[2])
    \/ /\ Len(c) = 3
       /\ cont(c[3])
       /\ \/ c[1] = 224 /\ c[2] >= 160 /\ c[2] <= 191
          \/ c[1] \in (225..236) \cup {238, 239} /\ cont(c[2])
          \/ c[1] = 237 /\ c[2] >= 128 /\ c[2] <= 159
    \/ /\ Len(c) = 4
       /\ cont(c[3])
       /\ cont(c[4])
       /\ \/ c[1] = 240 /\ c[2] >= 144 /\ c[2] <= 191
          \/ c[1] \in 241..243 /\ cont(c[2])
          \/ c[1] = 244 /\ c[2] >= 128 /\ c[2] <= 143

RECURSIVE WellFormedUtf8(_)
WellFormedUtf8(s) ==
    \/ s = <<>>
    \/ \E n \in 1..4 :
          /\ n <= Len(s)
          /\ WellFormedChar(Take(s, n))
          /\ WellFormedUtf8(Skip(s, n))

\* U+FFFD occurs in s.
HasReplacement(s) ==
    \E i \in 1..(Len(s) - 2) : SubSeq(s, i, i + 2) = <<239, 191, 189>>

\* C9 as stated: the text held by Unknown equals the pathname bytes of the
\* line, for every byte sequence.
C9_UnknownVerbatim ==
    (ParsedMapping /\ ret.st = "Done" /\ ret.val.kind.tag = "Unknown")
        => ret.val.kind.text = origin.name

\* C9 amended: the text held by Unknown equals the pathname bytes when these
\* are valid UTF-8; otherwise it is a valid UTF-8 string that differs from
\* the pathname and has U+FFFD where the ill-formed bytes were.
C9_UnknownLossy ==
    (ParsedMapping /\ ret.st = "Done" /\ ret.val.kind.tag = "Unknown") =>
        IF WellFormedUtf8(origin.name)
        THEN ret.val.kind.text = origin.name
        ELSE /\ ret.val.kind.text # origin.name
             /\ WellFormedUtf8(ret.val.kind.text)
             /\ HasReplacement(ret.val.kind.text)

\* C9 witness: the ill-formed pathname C3 5D is held as EF BF BD 5D.
C9_Witness ==
    /\ ParsedMapping
    /\ AnonymousDevice
    /\ origin.name = NameCutTwoByte
    /\ ret.val.kind = Unknown(<<239, 191, 189, 93>>)

\* C9: a pathname that is valid UTF-8 beyond ASCII is held verbatim.
C9_ValidReached ==
    /\ ParsedMapping
    /\ AnonymousDevice
    /\ origin.name = NameTwoByte
    /\ ret.val.kind = Unknown(NameTwoByte)

\* The kind that classifying the decoded pathname would give.
KindOfDecoded(n) ==
    LET p == parse_file_pathname(n).path IN
    IF CasesOf(p) # {} THEN Kind(CHOOSE c \in CasesOf(p) : TRUE)
    ELSE Unknown(from_utf8_lossy(p))

\* The kind that classifying the pathname as written gives.
KindOfRaw(n) ==
    IF CasesOf(n) # {} THEN Kind(CHOOSE c \in CasesOf(n) : TRUE)
    ELSE Unknown(from_utf8_lossy(n))

\* C10 as stated: on every line the pathname is decoded by the pathname
\* decoder, and an anonymous line is classified on the decoded path, so
\* that "[heap] (deleted)" is Heap.
C10_DecodedEverywhere ==
    ParsedMapping =>
        /\ ret.st = "Done"
        /\ AnonymousDevice => ret.val.kind = KindOfDecoded(origin.name)
        /\ ~AnonymousDevice =>
              /\ ret.val.kind.path = parse_file_pathname(origin.name).path
              /\ ret.val.kind.is_deleted =
                    parse_file_pathname(origin.name).is_deleted

\* C10 amended: the pathname is decoded by the pathname decoder on
\* file-backed lines only; an anonymous line is classified on the pathname
\* as written, so that "[heap] (deleted)" is Unknown holding that text and a
\* pathname with \012 keeps its backslash and digits.
C10_DecodedForFilesOnly ==
    ParsedMapping =>
        /\ ret.st = "Done"
        /\ AnonymousDevice => ret.val.kind = KindOfRaw(origin.name)
        /\ (AnonymousDevice /\ origin.name = NameHeapDeleted)
              => ret.val.kind = Unknown(NameHeapDeleted)
        /\ (AnonymousDevice /\ origin.name = NameEscaped)
              => ret.val.kind = Unknown(NameEscaped)
        /\ ~AnonymousDevice =>
              /\ ret.val.kind.path = parse_file_pathname(origin.name).path
              /\ ret.val.kind.is_deleted =
                    parse_file_pathname(origin.name).is_deleted

\* C10 witness: the anonymous line with pathname "[heap] (deleted)".
C10_Witness ==
    /\ ParsedMapping
    /\ AnonymousDevice
    /\ origin.inode = 0
    /\ origin.name = NameHeapDeleted
    /\ ret.val.kind = Unknown(NameHeapDeleted)

\* A line with a permission field has been parsed.
ParsedPerms == pc = "done" /\ "perms" \in DOMAIN origin

\* The permission field is four characters, each valid at its position.
PositionalPerms(q) ==
    /\ Len(q) = 4
    /\ q[1] \in {114, MINUS}
    /\ q[2] \in {119, MINUS}
    /\ q[3] \in {120, MINUS}
    /\ q[4] \in {115, 112}

\* C11: the permission field is read positionally: the line parses exactly
\* when the field is four characters with r or - first, w or - second, x or
\* - third and s or p fourth; the four flags are true exactly for r, w, x
\* and s; any other field gives a failure and no record.
C11_PositionalPerms ==
    ParsedPerms =>
        /\ ret.st = "Done" <=> PositionalPerms(origin.perms)
        /\ ret.st = "Done" =>
               /\ ret.val.is_readable = (origin.perms[1] = 114)
               /\ ret.val.is_writable = (origin.perms[2] = 119)
               /\ ret.val.is_executable = (origin.perms[3] = 120)
               /\ ret.val.is_shared = (origin.perms[4] = 115)
        /\ ret.st # "Done" => ret \in {Error, Incomplete}

\* The field 'w--p', a valid letter in the wrong position, has failed.
C11_Witness ==
    /\ ParsedPerms
    /\ origin.perms = <<119, MINUS, MINUS, 112>>
    /\ ret = Error

\* The field 'rw-s' has given read, write, no execute, shared.
C11_FlagsReached ==
    /\ ParsedPerms
    /\ origin.perms = <<114, 119, MINUS, 115>>
    /\ ret.st = "Done"
    /\ ret.val.is_shared

\* A line written for a mapping with a device other than 00:00 and a
\* pathname has been parsed.
ParsedFileLine == ParsedMapping /\ ~AnonymousDevice /\ origin.name # <<>>

\* The last byte of a sequence that is not empty.
Last(s) == s[Len(s)]

\* C15 as claimed: on a file-backed line the decoded path ends in the last
\* byte of the pathname, whatever that byte is.
C15_LastByteKept ==
    ParsedFileLine =>
        /\ ret.val.kind.path # <<>>
        /\ Last(ret.val.kind.path) = Last(origin.name)

\* The pathname has a backslash fourth from its end.
EndsInEscape(s) == Len(s) >= 4 /\ s[Len(s) - 3] = BS

\* C15: nothing is trimmed from the end of the pathname: on a file-backed
\* line whose pathname does not end in " (deleted)" and has no backslash
\* fourth from its end, the decoded path ends in the last byte of the
\* pathname, a carriage return, a space or a tab included.
C15_NothingTrimmed ==
    (ParsedFileLine /\ ~EndsInDeleted(origin.name) /\ ~EndsInEscape(origin.name)) =>
        /\ ret.val.kind.path # <<>>
        /\ Last(ret.val.kind.path) = Last(origin.name)
        /\ Len(ret.val.kind.path) <= Len(origin.name)

\* '/bin/cat\r' has kept its carriage return.
C15_Witness ==
    /\ ParsedFileLine
    /\ origin.name = NameBinCatCr
    /\ ret.val.kind.path = NameBinCatCr
    /\ Last(ret.val.kind.path) = 13

\* '/x (deleted)\r' has kept both the marker and the carriage return.
C15_MarkerKeptReached ==
    /\ ParsedFileLine
    /\ origin.name = NameDeletedCr
    /\ ret.val.kind.path = NameDeletedCr
    /\ ~ret.val.kind.is_deleted

\* C21: the address range is not validated: a line written for a mapping
\* whose start equals its end, or whose start is greater than its end, is
\* accepted, and the range of the record holds the two values as written.
C21_RangeNotValidated ==
    (ParsedMapping /\ origin.range[1] >= origin.range[2]) =>
        /\ ret.st = "Done"
        /\ ret.val.range.start = origin.range[1]
        /\ ret.val.range.end = origin.range[2]
        /\ ret.val.range.start >= ret.val.range.end

\* The line 000000ff-00000010 has given the range 0xff..0x10.
C21_Witness ==
    /\ ParsedMapping
    /\ origin.range = <<255, 16>>
    /\ ret.st = "Done"
    /\ ret.val.range = [start |-> 255, end |-> 16]

\* The line 00001000-00001000 has given the empty range 0x1000..0x1000.
C21_EmptyRangeReached ==
    /\ ParsedMapping
    /\ origin.range = <<4096, 4096>>
    /\ ret.st = "Done"
    /\ ret.val.range = [start |-> 4096, end |-> 4096]

(***************************************************************************)
(* maps_file: the lines of a reader, each parsed by parse_maps_entry, are  *)
(* collected into one io::Result.  The reader is an in-memory buffer       *)
(* (io::Cursor), whose reads never fail.                                   *)
(***************************************************************************)
\* io::Result: Ok(v), and Err(Error::new(kind, msg)).
IoOk(v) == [ok |-> TRUE, val |-> v]

IoErr(kind, msg) == [ok |-> FALSE, kind |-> kind, msg |-> msg]

\* parsers::map_result: a parse that is Done with nothing remaining is Ok,
\* any other is an InvalidInput error.
map_result(result) ==
    IF result.st = "Done" /\ result.rest = <<>> THEN IoOk(result.val)
    ELSE IoErr("InvalidInput", result.st)

\* split keeping the line feed at the end of the item.
split_next_KeepDelimiter(input) ==
    LET n == PrefixLen(input, (0..255) \ {LF}) IN
    [line |-> Take(input, IF n < Len(input) THEN n + 1 ELSE n),
     rest |-> Skip(input, n + 1)]

\* split passing over line feeds before the item.
split_next_SkipEmpty(input) ==
    LET k == PrefixLen(input, {LF})
        n == PrefixLen(Skip(input, k), (0..255) \ {LF})
    IN  [line |-> SubSeq(input, k + 1, k + n), rest |-> Skip(input, k + n + 1)]

\* One item of BufRead::split(b'\n') on unread bytes that are not empty: the
\* bytes before the first line feed, or all of them when there is none; the
\* line feed is read and dropped.
split_next(input) ==
    LET n == PrefixLen(input, (0..255) \ {LF}) IN
    [line |-> Take(input, n), rest |-> Skip(input, n + 1)]

\* collect() passing over an Err item.
collect_item_SkipErr(acc, r) ==
    IF r.ok THEN [pc |-> "split", out |-> Append(acc, r.val), ret |-> <<>>]
    ELSE [pc |-> "split", out |-> acc, ret |-> <<>>]

\* One item of collect() into io::Result<Vec<MemoryMap>>: an Ok item is
\* pushed, the first Err item ends the iteration, drops the vector and is
\* the result.
collect_item(acc, r) ==
    IF r.ok THEN [pc |-> "split", out |-> Append(acc, r.val), ret |-> <<>>]
    ELSE [pc |-> "done", out |-> <<>>, ret |-> r]

(***************************************************************************)
(* Bounds and input sets of the maps_file specification                    *)
(***************************************************************************)
MaxLines == 3

\* 000000ab-000000cd rw-p 00000000 00:00 0 
AnonymousMapping ==
    [SampleMapping EXCEPT !.perms = <<114, 119, MINUS, 112>>,
                          !.device = <<0, 0>>, !.inode = 0, !.name = NameEmpty]

\* 000000ab-000000cd rw-p 00000000 00:00 0  [heap]
HeapMapping == [AnonymousMapping EXCEPT !.pad = 1, !.name = NameHeap]

GoodPieces == {LineOf(SampleMapping), LineOf(AnonymousMapping), LineOf(HeapMapping)}

\* 000000ab-000000cd 00000000 fd:01 8650756 /bin/cat
NoPermsLine == Take(LineOf(SampleMapping), 18) \o Skip(LineOf(SampleMapping), 23)

\* 000000ab
CutLine == Take(LineOf(SampleMapping), 8)

BadPieces == {NoPermsLine, CutLine}

Pieces == GoodPieces \cup BadPieces \cup {<<>>}

\* A buffer is a sequence of pieces, each followed by a line feed, the last
\* one only if final_lf; a last piece without its line feed is not empty.
Buffers ==
    {b \in [pieces : BSeq(Pieces, MaxLines), final_lf : BOOLEAN] :
        IF b.pieces = <<>> THEN ~b.final_lf
        ELSE b.final_lf \/ b.pieces[Len(b.pieces)] # <<>>}

RECURSIVE JoinLines(_)
JoinLines(ps) ==
    IF ps = <<>> THEN <<>> ELSE Head(ps) \o <<LF>> \o JoinLines(Tail(ps))

BufferOf(b) ==
    IF b.final_lf \/ b.pieces = <<>> THEN JoinLines(b.pieces)
    ELSE Take(JoinLines(b.pieces), Len(JoinLines(b.pieces)) - 1)

\* A call maps_file(&mut io::Cursor::new(src)).
InitMapsFile ==
    /\ origin \in Buffers
    /\ src = BufferOf(origin)
    /\ escaped = {LF}
    /\ path = src
    /\ out = <<>>
    /\ pc = "split"
    /\ ret = <<>>
    /\ Idle

\* The iterator gives one more line, which is parsed and collected.
MapsFileLine ==
    /\ pc = "split"
    /\ path # <<>>
    /\ \E s \in {split_next(path)} :
       \E c \in {collect_item(out, map_result(parse_maps_entry(s.line)))} :
           /\ path' = s.rest
           /\ parsed' = Append(parsed, s.line)
           /\ out' = c.out
           /\ ret' = c.ret
           /\ pc' = c.pc
    /\ UNCHANGED <<src, escaped, origin, buf, from, log>>

\* The iterator has no more bytes: the vector is the result.
MapsFileEnd ==
    /\ pc = "split"
    /\ path = <<>>
    /\ ret' = IoOk(out)
    /\ pc' = "done"
    /\ UNCHANGED <<src, escaped, path, out, origin, parsed, buf, from, log>>

NextMapsFile == MapsFileLine \/ MapsFileEnd

SpecMapsFile == InitMapsFile /\ [][NextMapsFile]_vars

(***************************************************************************)
(* Properties of maps_file                                                 *)
(***************************************************************************)
MapsFileDone == pc = "done" /\ "pieces" \in DOMAIN origin

\* Every piece of the buffer is in S.
PiecesIn(S) == \A i \in 1..Len(origin.pieces) : origin.pieces[i] \in S

\* The records of the pieces, one by one.
RecordsOf(ps) == [i \in 1..Len(ps) |-> parse_maps_entry(ps[i]).val]

\* C12: a buffer of N well-formed lines separated by line feeds, with or
\* without a final line feed, gives exactly N records, the i-th one the record
\* of the i-th line.
C12_OneRecordPerLine ==
    (MapsFileDone /\ PiecesIn(GoodPieces)) =>
        /\ ret.ok
        /\ Len(ret.val) = Len(origin.pieces)
        /\ ret.val = RecordsOf(origin.pieces)

\* The two lines of test_maps_file with the final line feed gave two records.
C12_Witness ==
    /\ MapsFileDone
    /\ origin.pieces = <<LineOf(SampleMapping), LineOf(AnonymousMapping)>>
    /\ origin.final_lf
    /\ ret.ok
    /\ Len(ret.val) = 2
    /\ ret.val[2].kind = Kind("Anonymous")

\* The same two lines without the final line feed gave two records.
C12_NoFinalLfReached ==
    /\ MapsFileDone
    /\ origin.pieces = <<LineOf(SampleMapping), LineOf(AnonymousMapping)>>
    /\ ~origin.final_lf
    /\ ret.ok
    /\ Len(ret.val) = 2

\* ps without its empty pieces.
NonEmpty(ps) == SelectSeq(ps, LAMBDA p : p # <<>>)

\* The pieces up to and including the first one in S.
UpToFirstIn(ps, S) ==
    SubSeq(ps, 1, CHOOSE k \in 1..Len(ps) :
                      /\ ps[k] \in S
                      /\ \A j \in 1..(k - 1) : ps[j] \notin S)

\* C13 as claimed: every empty line is discarded, wherever it occurs, and
\* the records of the other lines are returned.
C13_EmptyLinesDiscarded ==
    (MapsFileDone /\ PiecesIn(GoodPieces \cup {<<>>})) =>
        /\ ret.ok
        /\ ret.val = RecordsOf(NonEmpty(origin.pieces))

\* C13: maps_file discards no line: only the absence of bytes after the
\* final line feed gives no line; an empty line anywhere (a leading line
\* feed, two line feeds in a row, a buffer of line feeds only) is parsed as
\* an entry, fails, and makes maps_file fail at that line.
C13_EmptyLineFails ==
    (MapsFileDone /\ PiecesIn(GoodPieces \cup {<<>>})) =>
        IF PiecesIn(GoodPieces)
        THEN ret = IoOk(RecordsOf(origin.pieces))
        ELSE /\ ~ret.ok
             /\ ret = map_result(parse_maps_entry(<<>>))
             /\ parsed = UpToFirstIn(origin.pieces, {<<>>})

\* Two line feeds in a row between two well-formed lines gave a failure.
C13_Witness ==
    /\ MapsFileDone
    /\ origin.pieces = <<LineOf(SampleMapping), <<>>, LineOf(HeapMapping)>>
    /\ src = LineOf(SampleMapping) \o <<LF, LF>> \o LineOf(HeapMapping)
    /\ ~ret.ok
    /\ parsed = <<LineOf(SampleMapping), <<>>>>

\* A buffer of one line feed gave a failure.
C13_OnlyLfReached ==
    /\ MapsFileDone
    /\ src = <<LF>>
    /\ ~ret.ok

\* C14: if a line fails to parse, maps_file returns a failure and no
\* records, even when earlier lines parsed; the failure is that of the
\* first failing line, and no line after it is parsed.
C14_FirstFailure ==
    (MapsFileDone /\ ~PiecesIn(GoodPieces)) =>
        LET failing == UpToFirstIn(origin.pieces, BadPieces \cup {<<>>}) IN
        /\ ~ret.ok
        /\ "val" \notin DOMAIN ret
        /\ out = <<>>
        /\ ret = map_result(parse_maps_entry(failing[Len(failing)]))
        /\ parsed = failing

\* A well-formed line, the line without its permission field and a line cut
\* short: the failure is that of the second line, the third was not parsed.
C14_Witness ==
    /\ MapsFileDone
    /\ origin.pieces = <<LineOf(SampleMapping), NoPermsLine, CutLine>>
    /\ ret = IoErr("InvalidInput", "Error")
    /\ map_result(parse_maps_entry(CutLine)) = IoErr("InvalidInput", "Incomplete")
    /\ parsed = <<LineOf(SampleMapping), NoPermsLine>>

(***************************************************************************)
(* The integer readers of parsers.rs on their own                          *)
(***************************************************************************)
MaxTokenLen == 3

\* 0, 1, 9, f, F, g and the space
TokenAlphabet == {D0, D1, 57, 102, 70, 103, SP}

\* n times the byte b.
Times(b, n) == [i \in 1..n |-> b]

\* '18446744073709551615', u64::MAX in decimal
U64MaxText == <<49, 56, 52, 52, 54, 55, 52, 52, 48, 55, 51, 55, 48, 57, 53, 53, 49, 54, 49, 53>>

\* Inputs around the largest values: 'ffffffff', 'FFFFFFFF', 'fffffffff',
\* '100000000', '0ffffffff', 'ffffffffg', '7fffffff', '80000000', 16 and 17
\* times 'f', '1' and 16 zeros, u64::MAX in decimal, the same plus one, the
\* same after a zero, '4294967295', '4294967296', '2147483647',
\* '2147483648' and 20 times '9'.
LongTokens ==
    {Times(102, 8), Times(70, 8), Times(102, 9), <<D1>> \o Times(D0, 8),
     <<D0>> \o Times(102, 8), Times(102, 8) \o <<103>>,
     <<55>> \o Times(102, 7), <<56>> \o Times(D0, 7),
     Times(102, 16), Times(102, 17), <<D1>> \o Times(D0, 16),
     U64MaxText, Take(U64MaxText, 19) \o <<54>>, <<D0>> \o U64MaxText,
     <<52, 50, 57, 52, 57, 54, 55, 50, 57, 53>>,
     <<52, 50, 57, 52, 57, 54, 55, 50, 57, 54>>,
     <<50, 49, 52, 55, 52, 56, 51, 54, 52, 55>>,
     <<50, 49, 52, 55, 52, 56, 51, 54, 52, 56>>,
     Times(57, 20)}

Tokens == BSeq(TokenAlphabet, MaxTokenLen) \cup LongTokens

Readers == {"parse_u32_hex", "parse_u64_hex", "parse_u64"}

\* A call of one of the readers on src.
InitTokens ==
    /\ src \in Tokens
    /\ origin \in [reader : Readers]
    /\ escaped = {}
    /\ path = src
    /\ out = <<>>
    /\ pc = "call"
    /\ ret = <<>>
    /\ Idle

ParseU32Hex ==
    /\ pc = "call"
    /\ origin.reader = "parse_u32_hex"
    /\ ret' = parse_u32_hex(src)
    /\ pc' = "done"
    /\ UNCHANGED <<src, escaped, path, out, origin, parsed, buf, from, log>>

ParseU64Hex ==
    /\ pc = "call"
    /\ origin.reader = "parse_u64_hex"
    /\ ret' = parse_u64_hex(src)
    /\ pc' = "done"
    /\ UNCHANGED <<src, escaped, path, out, origin, parsed, buf, from, log>>

ParseU64 ==
    /\ pc = "call"
    /\ origin.reader = "parse_u64"
    /\ ret' = parse_u64(src)
    /\ pc' = "done"
    /\ UNCHANGED <<src, escaped, path, out, origin, parsed, buf, from, log>>

NextTokens == ParseU32Hex \/ ParseU64Hex \/ ParseU64

SpecTokens == InitTokens /\ [][NextTokens]_vars

(***************************************************************************)
(* Properties of the integer readers.  The value of a digit string is      *)
(* compared as a digit string: the largest value of a type is given by its *)
(* digits, and a value returned is written out in the radix by division.   *)
(***************************************************************************)
RECURSIVE StripZeros(_)
StripZeros(digits) ==
    IF digits # <<>> /\ Head(digits) = 0 THEN StripZeros(Tail(digits))
    ELSE digits

RECURSIVE DigitsGreater(_, _)
\* a > b for two digit sequences of the same length.
DigitsGreater(a, b) ==
    IF a = <<>> THEN FALSE
    ELSE IF Head(a) # Head(b) THEN Head(a) > Head(b)
    ELSE DigitsGreater(Tail(a), Tail(b))

\* The number written by the digits is larger than the one written by max.
Exceeds(digits, max) ==
    LET sig == StripZeros(digits) IN
    \/ Len(sig) > Len(max)
    \/ Len(sig) = Len(max) /\ DigitsGreater(sig, max)

\* The digits of 2^32 - 1 and 2^64 - 1 in base 16, of 2^64 - 1 in base 10.
U32_MAX_HEX == [i \in 1..8 |-> 15]

U64_MAX_HEX == [i \in 1..16 |-> 15]

U64_MAX_DEC == [i \in 1..20 |-> U64MaxText[i] - 48]

\* The digits of 2^31 - 1 in base 16 and in base 10.
I32_MAX_HEX == <<7>> \o [i \in 1..7 |-> 15]

I32_MAX_DEC == <<2, 1, 4, 7, 4, 8, 3, 6, 4, 7>>

RECURSIVE DivBytes(_, _, _)
\* Long division of bytes, most significant first, by a small divisor.
DivBytes(bytes, divisor, rem) ==
    IF bytes = <<>> THEN [q |-> <<>>, r |-> rem]
    ELSE LET t == rem * 256 + Head(bytes)
             d == DivBytes(Tail(bytes), divisor, t % divisor)
         IN  [q |-> <<t \div divisor>> \o d.q, r |-> d.r]

RECURSIVE WrittenIn(_, _)
\* The digits, without leading zeros, of bytes given most significant first.
WrittenIn(bytes, radix) ==
    IF \A i \in 1..Len(bytes) : bytes[i] = 0 THEN <<>>
    ELSE LET d == DivBytes(bytes, radix, 0) IN
         Append(WrittenIn(d.q, radix), d.r)

\* The digits of a value returned by a reader, which is an integer when the
\* digits read are at most those of small.
DigitsOfValue(v, digits, radix, small) ==
    IF Exceeds(digits, small)
    THEN WrittenIn([i \in 1..Len(v.bytes) |-> v.bytes[Len(v.bytes) + 1 - i]], radix)
    ELSE WrittenIn(<<v \div 16777216, (v \div 65536) % 256, (v \div 256) % 256, v % 256>>, radix)

TokenRead == pc = "done" /\ "reader" \in DOMAIN origin

\* What the reader in use reads: its radix, the digits of the largest value
\* of its type and those of 2^31 - 1.
ReaderRadix == IF origin.reader = "parse_u64" THEN 10 ELSE 16

ReaderMax ==
    IF origin.reader = "parse_u64" THEN U64_MAX_DEC
    ELSE IF origin.reader = "parse_u64_hex" THEN U64_MAX_HEX
    ELSE U32_MAX_HEX

ReaderSmall == IF origin.reader = "parse_u64" THEN I32_MAX_DEC ELSE I32_MAX_HEX

ReaderDigits == IF origin.reader = "parse_u64" THEN is_digit ELSE is_hex_digit

\* The digit values of the first n bytes of src.
DigitValues(n) == [i \in 1..n |-> to_digit(src[i], ReaderRadix)]

\* C16: a hexadecimal reader consumes the longest prefix of hexadecimal
\* digits, which must not be empty, and returns its value with the input
\* that remains from the first other byte on; it fails when the first byte
\* is not a hexadecimal digit.  (A prefix whose value does not fit the type
\* is left to C17.)
C16_LongestHexPrefix ==
    (TokenRead /\ origin.reader # "parse_u64") =>
        LET n == PrefixLen(src, is_hex_digit) IN
        IF n = 0 THEN ret.st # "Done"
        ELSE ~Exceeds(DigitValues(n), ReaderMax) =>
                 /\ ret.st = "Done"
                 /\ ret.rest = Skip(src, n)
                 /\ DigitsOfValue(ret.val, DigitValues(n), 16, I32_MAX_HEX)
                        = StripZeros(DigitValues(n))

\* parse_u32_hex on '1fg' has failed.
C16_OneFGFails ==
    /\ TokenRead
    /\ origin.reader = "parse_u32_hex"
    /\ src = <<D1, 102, 103>>
    /\ ret = Error

\* C17: the readers never wrap: on a string of digits the reader returns
\* the exact value when it is at most the largest value of the type, and
\* fails when it is larger; it fails when the input does not begin with a
\* digit.  The string of digits is the whole input, or for parse_u64 the
\* digits the input begins with.
C17_NeverWraps ==
    TokenRead =>
        LET n == PrefixLen(src, ReaderDigits) IN
        /\ n = 0 => ret.st # "Done"
        /\ (n > 0 /\ (n = Len(src) \/ origin.reader = "parse_u64")) =>
               IF Exceeds(DigitValues(n), ReaderMax) THEN ret.st = "Error"
               ELSE /\ ret.st = "Done"
                    /\ ret.rest = Skip(src, n)
                    /\ DigitsOfValue(ret.val, DigitValues(n), ReaderRadix, ReaderSmall)
                           = StripZeros(DigitValues(n))

\* parse_u32_hex on 'ffffffff' has returned 4294967295.
C17_Witness ==
    /\ TokenRead
    /\ origin.reader = "parse_u32_hex"
    /\ src = Times(102, 8)
    /\ ret.st = "Done"
    /\ ret.val.bytes = <<255, 255, 255, 255>>
    /\ WrittenIn(<<255, 255, 255, 255>>, 10) = <<4, 2, 9, 4, 9, 6, 7, 2, 9, 5>>

\* parse_u32_hex on '100000000' has failed.
C17_TooLargeReached ==
    /\ TokenRead
    /\ origin.reader = "parse_u32_hex"
    /\ src = <<D1>> \o Times(D0, 8)
    /\ ret = Error

\* parse_u64 on u64::MAX has returned it, and has failed on u64::MAX + 1.
C17_U64MaxReached ==
    /\ TokenRead
    /\ origin.reader = "parse_u64"
    /\ \/ src = U64MaxText /\ ret.st = "Done" /\ ret.val.bytes = Times(255, 8)
       \/ src = Take(U64MaxText, 19) \o <<54>> /\ ret = Error

(***************************************************************************)
(* read_to_end: src is the content of the file, from is also the position  *)
(* of the file, and each action is one turn of the loop.  A read gives     *)
(* Ok(n) with n > 0 bytes placed at buf[from..], Ok(0) at the end of the   *)
(* file, or an error.                                                      *)
(***************************************************************************)
\* The match on an interrupted read returning the error.
read_arm_InterruptedFails(r, b, f) ==
    IF r.ok
    THEN IF r.val = 0 THEN [pc |-> "done", from |-> f, ret |-> IoOk(Take(b, f))]
         ELSE [pc |-> "loop", from |-> f + r.val, ret |-> <<>>]
    ELSE [pc |-> "done", from |-> f, ret |-> r]

\* The match whose arm Ok(n) leaves from as it is.
read_arm_NoAdvance(r, b, f) ==
    IF r.ok
    THEN IF r.val = 0 THEN [pc |-> "done", from |-> f, ret |-> IoOk(Take(b, f))]
         ELSE [pc |-> "loop", from |-> f, ret |-> <<>>]
    ELSE IF r.kind = "Interrupted" THEN [pc |-> "loop", from |-> f, ret |-> <<>>]
    ELSE [pc |-> "done", from |-> f, ret |-> r]

\* The match on the result r of file.read(&mut buf[from..]), with b the
\* buffer after the read.
read_arm(r, b, f) ==
    IF r.ok
    THEN IF r.val = 0 THEN [pc |-> "done", from |-> f, ret |-> IoOk(Take(b, f))]
         ELSE [pc |-> "loop", from |-> f + r.val, ret |-> <<>>]
    ELSE IF r.kind = "Interrupted" THEN [pc |-> "loop", from |-> f, ret |-> <<>>]
    ELSE [pc |-> "done", from |-> f, ret |-> r]

\* Error::new(ErrorKind::Other, "read underflow")
Underflow == IoErr("Other", "read underflow")

\* The error of an interrupted read, and the other errors a read gives.
Interrupted == IoErr("Interrupted", "os error 4")

ReadErrors == {IoErr("PermissionDenied", "os error 13"), IoErr("Other", "os error 5")}

(***************************************************************************)
(* Bounds and input sets of the read_to_end specification                  *)
(***************************************************************************)
MaxFileLen == 3

MaxBufLen == 4

MaxInterrupts == 2

FileBytes == {LA, LF}

\* The interrupted reads so far.
Interrupts == Len(SelectSeq(log, LAMBDA r : r = Interrupted))

\* A call read_to_end(file, &mut buf) on a buffer of zeros.
InitRead ==
    /\ src \in BSeq(FileBytes, MaxFileLen)
    /\ buf \in {Times(0, n) : n \in 0..MaxBufLen}
    /\ origin = [buf_len |-> Len(buf)]
    /\ from = 0
    /\ log = <<>>
    /\ parsed = <<>>
    /\ escaped = {}
    /\ path = <<>>
    /\ out = <<>>
    /\ pc = "loop"
    /\ ret = <<>>

\* The loop after the read gave r and left the buffer b.
AfterRead(r, b) ==
    LET a == read_arm(r, b, from) IN
    /\ log' = Append(log, r)
    /\ buf' = b
    /\ from' = a.from
    /\ ret' = a.ret
    /\ pc' = a.pc
    /\ UNCHANGED <<src, escaped, path, out, origin, parsed>>

\* from == buf.len()
ReadUnderflow ==
    /\ pc = "loop"
    /\ from = Len(buf)
    /\ ret' = Underflow
    /\ pc' = "done"
    /\ UNCHANGED <<src, escaped, path, out, origin, parsed, buf, from, log>>

\* The read gives some of the bytes left in the file, as many as fit.
ReadBytes ==
    /\ pc = "loop"
    /\ from < Len(buf)
    /\ \E n \in 1..(Len(buf) - from) :
           /\ from + n <= Len(src)
           /\ AfterRead(IoOk(n),
                        [i \in 1..Len(buf) |->
                            IF from < i /\ i <= from + n THEN src[i] ELSE buf[i]])

\* The read is at the end of the file.
ReadEof ==
    /\ pc = "loop"
    /\ from < Len(buf)
    /\ from = Len(src)
    /\ AfterRead(IoOk(0), buf)

ReadInterrupted ==
    /\ pc = "loop"
    /\ from < Len(buf)
    /\ Interrupts < MaxInterrupts
    /\ AfterRead(Interrupted, buf)

ReadError ==
    /\ pc = "loop"
    /\ from < Len(buf)
    /\ \E e \in ReadErrors : AfterRead(e, buf)

NextRead == ReadUnderflow \/ ReadBytes \/ ReadEof \/ ReadInterrupted \/ ReadError

SpecRead == InitRead /\ [][NextRead]_vars

\* The loop goes on while it has not returned: every read returns, and the
\* reader returns Interrupted at most MaxInterrupts times.
SpecReadFair == SpecRead /\ WF_vars(NextRead)

(***************************************************************************)
(* Properties of read_to_end                                               *)
(***************************************************************************)
ReadDone == pc = "done" /\ "buf_len" \in DOMAIN origin

\* No read has failed with an error other than Interrupted.
NoReadError == \A i \in 1..Len(log) : log[i] \notin ReadErrors

\* C18: read_to_end returns the buffer-too-small error exactly when the file
\* is longer than buf: a file of at most buf.len() bytes, one of exactly
\* buf.len() bytes and the empty file included, gives Ok with exactly the
\* bytes of the file, a longer one gives the error.
C18_ErrorOnlyWhenLonger ==
    (ReadDone /\ NoReadError) =>
        IF Len(src) <= Len(buf) THEN ret = IoOk(src) ELSE ret = Underflow

\* A file of three bytes read into a buffer of three bytes has given the
\* error, with the three bytes in the buffer.
C18_ExactFitFails ==
    /\ ReadDone
    /\ Len(src) = 3
    /\ buf = src
    /\ ret = Underflow

\* What the code does: the error is returned when the file is at least as
\* long as buf.
C18_ErrorWhenNotShorter ==
    (ReadDone /\ NoReadError) =>
        IF Len(src) < Len(buf) THEN ret = IoOk(src) ELSE ret = Underflow

\* C19: a read error other than Interrupted is returned at once and
\* unchanged, and no read follows it; an interrupted read is ignored: from
\* and the bytes in buf stay as they are, nothing is returned, and the loop
\* comes to the read again.
C19_ReadErrors ==
    [][/\ pc = "done" => log' = log
       /\ log' # log =>
              LET r == log'[Len(log')] IN
              /\ r \in ReadErrors => (pc' = "done" /\ ret' = r /\ from' = from)
              /\ r = Interrupted =>
                     /\ from' = from
                     /\ buf' = buf
                     /\ ret' = ret
                     /\ pc' = "loop"
                     /\ from' < Len(buf')]_vars

\* A read was interrupted with one byte in the buffer, the next read gave
\* more bytes, and a later read failed: that error is the result.
C19_Witness ==
    /\ ReadDone
    /\ Len(log) = 4
    /\ log[1] = IoOk(1)
    /\ log[2] = Interrupted
    /\ log[3] = IoOk(1)
    /\ log[4] = IoErr("PermissionDenied", "os error 13")
    /\ ret = log[4]
    /\ from = 2
    /\ Take(buf, 2) = Take(src, 2)

\* C30: from never exceeds buf.len(), never decreases, and increases with
\* every read that gives bytes; the loop returns in every execution in
\* which the reader returns Interrupted finitely many times.
C30_ReadTerminates ==
    /\ [](from <= Len(buf))
    /\ [][/\ from' >= from
          /\ (log' # log /\ Last(log').ok /\ Last(log').val > 0) => from' > from
          /\ pc = "done" => UNCHANGED vars]_vars
    /\ <>(pc = "done" /\ (ret = Underflow \/ ret \in ReadErrors \/ ret.ok))

\* C30 witness: two interrupted reads and two reads that gave bytes, then
\* the end of the file.
C30_Witness ==
    /\ ReadDone
    /\ log = <<Interrupted, IoOk(2), Interrupted, IoOk(1), IoOk(0)>>
    /\ Len(buf) = 4
    /\ from = 3
    /\ ret = IoOk(Take(buf, 3))

(***************************************************************************)
(* pid/io.rs: the parser of /proc/[pid]/io.                                *)
(***************************************************************************)
CR == 13

\* nom's line_ending: a line feed, or a carriage return and a line feed.
line_ending(input) ==
    IF input = <<>> THEN Incomplete
    ELSE IF Head(input) = LF THEN Done(Tail(input), <<LF>>)
    ELSE IF Head(input) # CR THEN Error
    ELSE IF Len(input) = 1 THEN Incomplete
    ELSE IF input[2] = LF THEN Done(Skip(input, 2), <<CR, LF>>)
    ELSE Error

\* parse_usize: a usize in base 10; usize is 64 bits wide.
parse_usize(input) == map_res_radix(digit(input), 10, U64_BYTES)

\* opt!(space): an Error of space becomes "nothing, nothing consumed".
opt_space(input) ==
    The({IF r.st = "Error" THEN Done(input, <<>>) ELSE r :
         r \in {space(input)}})

\* The chain in which every step is optional: it gives 0 and consumes
\* nothing where the chain fails.
key_value_Optional(input, key) ==
    The({IF t.st # "Done" THEN Done(input, 0)
         ELSE The({IF o.st # "Done" THEN Done(input, 0)
              ELSE The({IF s.st # "Done" THEN Done(input, 0)
                   ELSE The({IF e.st # "Done" THEN Done(input, 0)
                             ELSE Done(e.rest, s.val) :
                             e \in {line_ending(s.rest)}}) :
                        s \in {parse_usize(o.rest)}}) :
                   o \in {opt_space(t.rest)}}) :
         t \in {tag(input, key)}})

\* chain!(tag!(key) ~ opt_space ~ s: parse_usize ~ line_ending, || { s })
key_value(input, key) ==
    The({IF t.st # "Done" THEN t
         ELSE The({IF o.st # "Done" THEN o
              ELSE The({IF s.st # "Done" THEN s
                   ELSE The({IF e.st # "Done" THEN e
                             ELSE Done(e.rest, s.val) :
                             e \in {line_ending(s.rest)}}) :
                        s \in {parse_usize(o.rest)}}) :
                   o \in {opt_space(t.rest)}}) :
         t \in {tag(input, key)}})

\* The tag!("<key>:") of each of the seven parsers.
KeyTag(field) ==
    CASE field = "rchar" ->
             <<114, 99, 104, 97, 114, 58>>
      [] field = "wchar" ->
             <<119, 99, 104, 97, 114, 58>>
      [] field = "syscr" ->
             <<115, 121, 115, 99, 114, 58>>
      [] field = "syscw" ->
             <<115, 121, 115, 99, 119, 58>>
      [] field = "read_bytes" ->
             <<114, 101, 97, 100, 95, 98, 121, 116, 101, 115, 58>>
      [] field = "write_bytes" ->
             <<119, 114, 105, 116, 101, 95, 98, 121, 116, 101, 115, 58>>
      [] field = "cancelled_write_bytes" ->
             <<99, 97, 110, 99, 101, 108, 108, 101, 100, 95, 119, 114, 105, 116, 101, 95, 98, 121, 116, 101, 115, 58>>

parse_rchar(input) == key_value(input, KeyTag("rchar"))

parse_wchar(input) == key_value(input, KeyTag("wchar"))

parse_syscr(input) == key_value(input, KeyTag("syscr"))

parse_syscw(input) == key_value(input, KeyTag("syscw"))

parse_read_bytes(input) == key_value(input, KeyTag("read_bytes"))

parse_write_bytes(input) == key_value(input, KeyTag("write_bytes"))

parse_cancelled_write_bytes(input) == key_value(input, KeyTag("cancelled_write_bytes"))

\* Default::default() of Io.
Io == [rchar |-> 0, wchar |-> 0, syscr |-> 0, syscw |-> 0, read_bytes |-> 0,
       write_bytes |-> 0, cancelled_write_bytes |-> 0]

\* The alternatives of the alt! of parse_io, in order.
Alternatives ==
    <<"rchar", "wchar", "syscr", "syscw",
      "read_bytes", "write_bytes", "cancelled_write_bytes">>

alternative(input, field) ==
    CASE field = "rchar" -> parse_rchar(input)
      [] field = "wchar" -> parse_wchar(input)
      [] field = "syscr" -> parse_syscr(input)
      [] field = "syscw" -> parse_syscw(input)
      [] field = "read_bytes" -> parse_read_bytes(input)
      [] field = "write_bytes" -> parse_write_bytes(input)
      [] field = "cancelled_write_bytes" ->
             parse_cancelled_write_bytes(input)

\* The closure that keeps the value a field already has.
assign_KeepFirst(io, field, value) ==
    IF io[field] = 0 THEN [io EXCEPT ![field] = value] ELSE io

\* The closure of an alternative: |value| io.field = value
assign(io, field, value) == [io EXCEPT ![field] = value]

\* alt!: the first alternative, from the i-th on, that does not give Error
\* decides; Done carries the Io after the closure of the alternative ran.
RECURSIVE alt(_, _, _)
alt(input, io, i) ==
    IF i > Len(Alternatives) THEN Error
    ELSE The({IF r.st = "Error" THEN alt(input, io, i + 1)
              ELSE IF r.st = "Incomplete" THEN r
              ELSE Done(r.rest, assign(io, Alternatives[i], r.val)) :
              r \in {alternative(input, Alternatives[i])}})

\* One iteration of the loop of parse_io on the remaining input, with the Io
\* built so far: the branch taken, the result where the function returns,
\* and the input and the Io of the next iteration where it does not.
iteration(input, io) ==
    The({IF r.st # "Done" THEN
             [branch |-> "try_parse", ret |-> r, input |-> input, io |-> io]
         ELSE IF Len(r.rest) = 0 THEN
             [branch |-> "break_done", ret |-> Done(<<>>, r.val),
              input |-> r.rest, io |-> r.val]
         ELSE IF Len(input) = Len(r.rest) THEN
             [branch |-> "break_error", ret |-> Error,
              input |-> r.rest, io |-> r.val]
         ELSE
             [branch |-> "continue", ret |-> <<>>,
              input |-> r.rest, io |-> r.val] :
         r \in {alt(input, io, 1)}})

\* The lines of an io file: the seven fields as the kernel writes them,
\* lines with another spacing or line ending, lines with another key, and
\* lines that are not "key: value".
MaxIoLines == 3

FieldLine(key, value, text) ==
    [kind |-> "field", key |-> key, value |-> value, text |-> text]

KernelLines ==
    {FieldLine("rchar", 7, KeyTag("rchar") \o <<SP, 55, LF>>),
     FieldLine("wchar", 7, KeyTag("wchar") \o <<SP, 55, LF>>),
     FieldLine("syscr", 7, KeyTag("syscr") \o <<SP, 55, LF>>),
     FieldLine("syscw", 7, KeyTag("syscw") \o <<SP, 55, LF>>),
     FieldLine("read_bytes", 7, KeyTag("read_bytes") \o <<SP, 55, LF>>),
     FieldLine("write_bytes", 7, KeyTag("write_bytes") \o <<SP, 55, LF>>),
     FieldLine("cancelled_write_bytes", 7, KeyTag("cancelled_write_bytes") \o <<SP, 55, LF>>)}

VariantLines ==
    {FieldLine("rchar", 12, KeyTag("rchar") \o <<SP, 49, 50, LF>>),
     FieldLine("wchar", 3, KeyTag("wchar") \o <<51, LF>>),
     FieldLine("syscr", 5, KeyTag("syscr") \o <<SP, TAB, 48, 53, LF>>),
     FieldLine("syscw", 0, KeyTag("syscw") \o <<SP, 48, CR, LF>>)}

OtherKeyLines ==
    {[kind |-> "other_key", key |-> "foo", value |-> 7,
      text |-> <<102, 111, 111, 58, 32, 55, 10>>],
     [kind |-> "other_key", key |-> "char", value |-> 7,
      text |-> <<99, 104, 97, 114, 58, 32, 55, 10>>]}

MalformedLines ==
    {[kind |-> "no_value", key |-> "rchar", value |-> 0,
      text |-> KeyTag("rchar") \o <<SP, LF>>],
     [kind |-> "unterminated", key |-> "wchar", value |-> 7,
      text |-> KeyTag("wchar") \o <<SP, 55>>],
     [kind |-> "too_large", key |-> "syscr", value |-> 0,
      text |-> KeyTag("syscr") \o <<SP>> \o U64MaxText \o <<48, LF>>],
     [kind |-> "empty", key |-> "", value |-> 0, text |-> <<LF>>]}

IoLines == KernelLines \cup VariantLines \cup OtherKeyLines \cup MalformedLines

IoFiles == UNION {[1..n -> IoLines] : n \in 0..MaxIoLines}

\* The bytes of a file made of the given lines.
RECURSIVE IoText(_)
IoText(lines) ==
    IF lines = <<>> THEN <<>> ELSE Head(lines).text \o IoText(Tail(lines))

InitIo ==
    /\ origin \in {[lines |-> f] : f \in IoFiles}
    /\ src = IoText(origin.lines)
    /\ path = src
    /\ parsed = Io
    /\ log = <<>>
    /\ pc = "loop"
    /\ ret = <<>>
    /\ escaped = {}
    /\ out = <<>>
    /\ buf = <<>>
    /\ from = 0

\* parse_io, one iteration of its loop.
ParseIoIteration ==
    /\ pc = "loop"
    /\ "lines" \in DOMAIN origin
    /\ \E it \in {iteration(path, parsed)} :
           /\ log' = Append(log, [original_len |-> Len(path),
                                  final_len |-> Len(it.input),
                                  branch |-> it.branch])
           /\ path' = it.input
           /\ parsed' = it.io
           /\ ret' = it.ret
           /\ pc' = IF it.branch = "continue" THEN "loop" ELSE "done"
    /\ UNCHANGED <<src, escaped, out, origin, buf, from>>

SpecIo == InitIo /\ [][ParseIoIteration]_vars

\* The Io the lines of a file describe: every field has the value of the
\* last line carrying its key, and 0 where no line carries it.
LastValue(lines, key) ==
    LET at == {i \in 1..Len(lines) : lines[i].key = key} IN
    IF at = {} THEN 0
    ELSE lines[CHOOSE i \in at : \A j \in at : j <= i].value

IoOf(lines) == [key \in DOMAIN Io |-> LastValue(lines, key)]

ParsedIo == "lines" \in DOMAIN origin /\ pc = "done"

OnlyFieldLines ==
    /\ origin.lines # <<>>
    /\ \A i \in 1..Len(origin.lines) : origin.lines[i].kind = "field"

\* C22: the seven "key: value" lines are accepted in any order: a non-empty
\* input made only of such lines parses, every field is the value of the
\* last line carrying its key and 0 where its key is absent; an input with
\* a line of any other key does not parse.
C22_AnyOrderLastWins ==
    ParsedIo =>
        /\ OnlyFieldLines =>
               /\ ret.st = "Done"
               /\ ret.rest = <<>>
               /\ ret.val = IoOf(origin.lines)
        /\ (\E i \in 1..Len(origin.lines) :
                origin.lines[i].kind = "other_key") => ret.st # "Done"

\* C22 witness: cancelled_write_bytes, then rchar twice with two values.
C22_Witness ==
    /\ ParsedIo
    /\ Len(origin.lines) = 3
    /\ origin.lines[1].key = "cancelled_write_bytes"
    /\ origin.lines[2] = FieldLine("rchar", 7, KeyTag("rchar") \o <<SP, 55, LF>>)
    /\ origin.lines[3] = FieldLine("rchar", 12, KeyTag("rchar") \o <<SP, 49, 50, LF>>)
    /\ ret.st = "Done"
    /\ ret.val = [Io EXCEPT !.rchar = 12, !.cancelled_write_bytes = 7]

\* A file whose last line has another key has been rejected.
C22_OtherKeyReached ==
    /\ ParsedIo
    /\ Len(origin.lines) = 2
    /\ origin.lines[1].kind = "field"
    /\ origin.lines[2].kind = "other_key"
    /\ ret.st = "Error"

\* What C29 says of the iterations taken so far, but for their number: the
\* branch that reports an iteration that consumed nothing is never taken,
\* an iteration that does not return consumes at least one byte, and the
\* remaining input is shorter at every iteration than at the one before.
IterationsConsume ==
    \A i \in 1..Len(log) :
        /\ log[i].branch # "break_error"
        /\ log[i].branch = "continue" =>
               log[i].final_len < log[i].original_len
        /\ i > 1 => /\ log[i].original_len < log[i - 1].original_len
                    /\ log[i].original_len = log[i - 1].final_len

\* C29 as stated: the iterations consume, and their number is at most the
\* length of the input.
C29_AtMostInputLength ==
    "lines" \in DOMAIN origin => (IterationsConsume /\ Len(log) <= Len(src))

\* C29: the loop of parse_io terminates: the iterations consume as above,
\* the loop has returned after at most as many iterations as the input has
\* bytes, and after one iteration on the empty input.
C29_LoopTerminates ==
    "lines" \in DOMAIN origin =>
        /\ IterationsConsume
        /\ Len(log) <= (IF src = <<>> THEN 1 ELSE Len(src))
        /\ pc = "loop" => Len(path) < Len(src) \/ log = <<>>
        /\ (src = <<>> /\ pc = "done") => (Len(log) = 1 /\ ret.st = "Incomplete")

\* C29 witness: a file of three lines took three iterations, two of which
\* went on to the next.
C29_Witness ==
    /\ ParsedIo
    /\ Len(origin.lines) = 3
    /\ Len(log) = 3
    /\ log[1].branch = "continue"
    /\ log[2].branch = "continue"
    /\ log[3].branch = "break_done"
    /\ log[3].final_len = 0

\* The empty input has taken one iteration.
C29_EmptyInputReached ==
    /\ ParsedIo
    /\ src = <<>>
    /\ Len(log) = 1
    /\ log[1].branch = "try_parse"

(***************************************************************************)
(* pid/environ.rs: the iterator over the pairs of /proc/[pid]/environ.     *)
(***************************************************************************)
NUL == 0

EQ == 61

\* The 1-based index of the first byte of s at or after index i that is b,
\* or 0 where there is none.
RECURSIVE position(_, _, _)
position(s, i, b) ==
    IF i > Len(s) THEN 0
    ELSE IF s[i] = b THEN i
    ELSE position(s, i + 1, b)

\* get_name looking for the '=' from the first byte on.
get_name_NoSkip(s) ==
    The({IF q = 0 THEN Error ELSE Done(Skip(s, q), Take(s, q - 1)) :
         q \in {position(s, 1, EQ)}})

\* get_name: the '=' is looked for after skipping one byte; the name is what
\* comes before it, and the '=' is consumed.
get_name(s) ==
    The({IF q = 0 THEN Error ELSE Done(Skip(s, q), Take(s, q - 1)) :
         q \in {position(s, 2, EQ)}})

\* take_until_and_consume!("\0")
take_until_and_consume(input, b) ==
    IF Len(input) < 1 THEN Incomplete
    ELSE The({IF q = 0 THEN Error ELSE Done(Skip(input, q), Take(input, q - 1)) :
              q \in {position(input, 1, b)}})

\* tuple!(get_name, map!(take_until_and_consume!("\0"), from_bytes))
parse_pair(input) ==
    The({IF n.st # "Done" THEN n
         ELSE The({IF v.st # "Done" THEN v
                   ELSE Done(v.rest, [name |-> n.val, value |-> v.val]) :
                   v \in {take_until_and_consume(n.rest, NUL)}}) :
         n \in {get_name(input)}})

\* The items of the iterator: None, Some(Ok(pair)) and Some(Err(..)).
None == [some |-> FALSE, ok |-> FALSE, pair |-> <<>>]

SomeOk(pair) == [some |-> TRUE, ok |-> TRUE, pair |-> pair]

SomeErr == [some |-> TRUE, ok |-> FALSE, pair |-> <<>>]

\* EnvironIter::next on the cursor data_pointer: the item and the cursor
\* after the call.
next(data_pointer) ==
    IF data_pointer = <<>> THEN [item |-> None, data_pointer |-> data_pointer]
    ELSE The({IF r.st = "Done" THEN
                  [item |-> SomeOk(r.val), data_pointer |-> r.rest]
              ELSE IF r.st = "Incomplete" THEN
                  [item |-> None, data_pointer |-> data_pointer]
              ELSE [item |-> SomeErr, data_pointer |-> data_pointer] :
              r \in {parse_pair(data_pointer)}})

\* The data of an Environ: every byte string up to MaxEnvLen over NUL, '=',
\* 'A' and 'B'; the consumer calls next up to MaxCalls times.
MaxEnvLen == 6

MaxCalls == 4

EnvBytes == {NUL, EQ, 65, 66}

\* into_iter: the cursor is at the start of the data.
InitEnviron ==
    /\ src \in BSeq(EnvBytes, MaxEnvLen)
    /\ origin = [data |-> src]
    /\ path = src
    /\ log = <<>>
    /\ pc = "iter"
    /\ ret = <<>>
    /\ parsed = <<>>
    /\ escaped = {}
    /\ out = <<>>
    /\ buf = <<>>
    /\ from = 0

\* One call of next by the consumer.
EnvironIterNext ==
    /\ pc = "iter"
    /\ "data" \in DOMAIN origin
    /\ Len(log) < MaxCalls
    /\ \E n \in {next(path)} :
           /\ ret' = n.item
           /\ path' = n.data_pointer
           /\ log' = Append(log, [item |-> n.item, before |-> path,
                                  after |-> n.data_pointer])
    /\ UNCHANGED <<pc, src, escaped, out, origin, parsed, buf, from>>

SpecEnviron == InitEnviron /\ [][EnvironIterNext]_vars

\* The index of the first NUL of data (0 where there is none), and of the
\* first '=' of an entry after its first byte.
FirstNul(data) ==
    IF \A i \in 1..Len(data) : data[i] # NUL THEN 0
    ELSE CHOOSE i \in 1..Len(data) :
             data[i] = NUL /\ \A j \in 1..(i - 1) : data[j] # NUL

FirstEq(entry) ==
    IF \A i \in 2..Len(entry) : entry[i] # EQ THEN 0
    ELSE CHOOSE i \in 2..Len(entry) :
             entry[i] = EQ /\ \A j \in 2..(i - 1) : entry[j] # EQ

\* Every entry of data is NUL-terminated and has an '=' after its first
\* byte.
RECURSIVE WellFormedEnv(_)
WellFormedEnv(data) ==
    \/ data = <<>>
    \/ /\ FirstNul(data) # 0
       /\ FirstEq(Take(data, FirstNul(data) - 1)) # 0
       /\ WellFormedEnv(Skip(data, FirstNul(data)))

\* The pairs of well-formed data, entry by entry.
RECURSIVE PairsOf(_)
PairsOf(data) ==
    IF data = <<>> THEN <<>>
    ELSE LET entry == Take(data, FirstNul(data) - 1) IN
         <<[name |-> Take(entry, FirstEq(entry) - 1),
            value |-> Skip(entry, FirstEq(entry))]>>
             \o PairsOf(Skip(data, FirstNul(data)))

EnvironIterated == "data" \in DOMAIN origin /\ log # <<>>

\* C23: on data whose entries are all NUL-terminated with an '=' after the
\* first byte, the iterator yields one Ok pair per entry, in data order, and
\* then None; the name is what comes before the first '=' at index 1 or
\* later and the value what comes between that '=' and the NUL.
C23_OnePairPerEntry ==
    (EnvironIterated /\ WellFormedEnv(src)) =>
        \A i \in 1..Len(log) :
            IF i <= Len(PairsOf(src))
            THEN /\ log[i].item.some
                 /\ log[i].item.ok
                 /\ log[i].item.pair = PairsOf(src)[i]
            ELSE ~log[i].item.some

\* C23 witness: "=A=B" and its NUL gave the name "=A" and the value "B",
\* then None.
C23_Witness ==
    /\ EnvironIterated
    /\ src = <<EQ, 65, EQ, 66, NUL>>
    /\ Len(log) = 2
    /\ log[1].item = SomeOk([name |-> <<EQ, 65>>, value |-> <<66>>])
    /\ log[2].item = None

\* Two entries with empty values gave two pairs, then None twice.
C23_TwoEntriesReached ==
    /\ EnvironIterated
    /\ src = <<65, EQ, NUL, 66, EQ, NUL>>
    /\ Len(log) = 4
    /\ log[1].item = SomeOk([name |-> <<65>>, value |-> <<>>])
    /\ log[2].item = SomeOk([name |-> <<66>>, value |-> <<>>])
    /\ log[3].item = None
    /\ log[4].item = None

\* The cursor moves only in a call that yields an Ok pair, and after an Err
\* every later call yields an Err again.
ErrRepeats ==
    /\ \A i \in 1..Len(log) :
           log[i].after # log[i].before => (log[i].item.some /\ log[i].item.ok)
    /\ \A i \in 1..Len(log) : \A j \in (i + 1)..Len(log) :
           log[i].item = SomeErr => log[j].item = SomeErr

\* C28: the cursor advances only when an Ok pair is yielded; after an Err
\* every later call yields an Err and never None, so the iteration over data
\* with a malformed entry does not come to None.
C28_ErrForever ==
    "data" \in DOMAIN origin =>
        /\ ErrRepeats
        /\ ~WellFormedEnv(src) => \A i \in 1..Len(log) : log[i].item # None

\* The part of C28 about the calls after an Err.
C28_ErrRepeats == "data" \in DOMAIN origin => ErrRepeats

\* An entry without '=' was joined with the entry after it: one Ok pair
\* whose name holds a NUL, then None.
C28_JoinedEntriesReached ==
    /\ EnvironIterated
    /\ src = <<65, NUL, 66, EQ, NUL>>
    /\ Len(log) = 2
    /\ log[1].item = SomeOk([name |-> <<65, NUL, 66>>, value |-> <<>>])
    /\ log[2].item = None

\* A last entry "A=" without its NUL ended the iteration with None.
C28_UnterminatedReached ==
    /\ EnvironIterated
    /\ src = <<65, EQ>>
    /\ log[1].item = None

\* An entry without '=' at the end of the data gave Err in every call.
C28_ErrRepeatsReached ==
    /\ EnvironIterated
    /\ src = <<65, EQ, NUL, 65, NUL>>
    /\ Len(log) = 4
    /\ log[1].item.ok
    /\ \A i \in 2..4 : log[i].item = SomeErr /\ log[i].after = <<65, NUL>>

(***************************************************************************)
(* pid/limits.rs: the lines of /proc/[pid]/limits that hold a duration.    *)
(* A u64 is kept as its eight bytes, least significant first, and a u32    *)
(* as its four.                                                            *)
(***************************************************************************)
NANOS_PER_SEC == 1000000000

\* take_until!(pattern): what comes before the first occurrence of the
\* pattern, which is left in the input.
take_until(input, pattern) ==
    IF Len(input) < Len(pattern) THEN Incomplete
    ELSE The({IF at = {} THEN Error
              ELSE The({Done(Skip(input, i - 1), Take(input, i - 1)) :
                        i \in {CHOOSE i \in at : \A j \in at : i <= j}}) :
              at \in {{i \in 1..(Len(input) - Len(pattern) + 1) :
                          SubSeq(input, i, i + Len(pattern) - 1) = pattern}}})

\* take_while!(is_space)
take_while(input, class) ==
    The({Done(Skip(input, n), Take(input, n)) :
         n \in {PrefixLen(input, class)}})

\* before_soft_value: the name of the limit and the spaces after it.
before_soft_value(input) ==
    The({IF n.st # "Done" THEN n
         ELSE Done(take_while(n.rest, is_space).rest, <<>>) :
         n \in {take_until(input, <<SP, SP>>)}})

\* parse_u64, with the value as its bytes.
parse_u64_bytes(input) ==
    The({IF d.st # "Done" THEN d
         ELSE The({IF v = <<>> THEN Error ELSE Done(d.rest, v) :
                   v \in {Accumulate([i \in 1..Len(d.val) |-> d.val[i] - D0],
                                     10, [i \in 1..U64_BYTES |-> 0])}}) :
         d \in {digit(input)}})

\* parse_u64_value: "unlimited" is None, a number v is Some(v).
parse_u64_value(input) ==
    The({IF u.st = "Done" THEN Done(u.rest, [some |-> FALSE, v |-> <<>>])
         ELSE IF u.st = "Incomplete" THEN u
         ELSE The({IF n.st # "Done" THEN n
                   ELSE Done(n.rest, [some |-> TRUE, v |-> n.val]) :
                   n \in {parse_u64_bytes(input)}}) :
         u \in {tag(input, <<117, 110, 108, 105, 109, 105, 116, 101, 100>>)}})

\* parse_unit
parse_unit(input) ==
    The({IF s.st = "Done" THEN Done(s.rest, "Seconds")
         ELSE IF s.st = "Incomplete" THEN s
         ELSE The({IF u.st # "Done" THEN u ELSE Done(u.rest, "Microseconds") :
                   u \in {tag(input, <<117, 115>>)}}) :
         s \in {tag(input, <<115, 101, 99, 111, 110, 100, 115>>)}})

\* An Option<Duration>, or the panic of the arithmetic that was to give it.
NoDuration == [some |-> FALSE, panic |-> FALSE, secs |-> <<>>, nanos |-> 0]

Panic == [some |-> FALSE, panic |-> TRUE, secs |-> <<>>, nanos |-> 0]

\* Duration::new(secs, nanos) of a u64 and a u32: the whole seconds of nanos
\* are carried into secs.  nanos at or above 2^31 are taken apart at 2^31,
\* which is 2 seconds and 147483648 nanoseconds.
Duration_new(secs, nanos) ==
    LET low == Number([nanos EXCEPT ![U32_BYTES] = @ % 128])
        rem == (low % NANOS_PER_SEC)
                   + (IF nanos[U32_BYTES] >= 128 THEN 147483648 ELSE 0)
        carry == (low \div NANOS_PER_SEC)
                     + (IF nanos[U32_BYTES] >= 128 THEN 2 ELSE 0)
                     + (rem \div NANOS_PER_SEC)
    IN  [some |-> TRUE, panic |-> FALSE,
         secs |-> Take(MulAdd(secs, 1, carry), U64_BYTES),
         nanos |-> rem % NANOS_PER_SEC]

\* get_duration_from_unit: Duration::new(value, 0) for seconds and
\* Duration::new(0, value as u32 * 1000) for microseconds, where the product
\* of two u32 panics in a build with overflow checks and wraps in one
\* without.
get_duration_from_unit(value, unit, overflow_checks) ==
    IF unit = "Seconds" THEN Duration_new(value, [i \in 1..U32_BYTES |-> 0])
    ELSE The({IF m[U32_BYTES + 1] # 0 /\ overflow_checks THEN Panic
              ELSE Duration_new([i \in 1..U64_BYTES |-> 0], Take(m, U32_BYTES)) :
              m \in {MulAdd(Take(value, U32_BYTES), 1000, 0)}})

\* soft.and_then(|v| { get_duration_from_unit(v, &unit) })
and_then(value, unit, overflow_checks) ==
    IF value.some THEN get_duration_from_unit(value.v, unit, overflow_checks)
    ELSE NoDuration

\* parse_duration_line; a panic of the closing expression is the result
\* "Panic".
parse_duration_line(input, overflow_checks) ==
    The({IF b.st # "Done" THEN b
    ELSE The({IF soft.st # "Done" THEN soft
    ELSE The({IF hard.st # "Done" THEN hard
    ELSE The({IF unit.st # "Done" THEN unit
    ELSE The({IF e.st # "Done" THEN e
    ELSE The({IF s.panic \/ h.panic THEN [st |-> "Panic", rest |-> <<>>, val |-> 0]
              ELSE Done(e.rest, [soft |-> s, hard |-> h]) :
              s \in {and_then(soft.val, unit.val, overflow_checks)},
              h \in {and_then(hard.val, unit.val, overflow_checks)}}) :
         e \in {take_until_and_consume(unit.rest, LF)}}) :
         unit \in {parse_unit(take_while(hard.rest, is_space).rest)}}) :
         hard \in {parse_u64_value(take_while(soft.rest, is_space).rest)}}) :
         soft \in {parse_u64_value(b.rest)}}) :
         b \in {before_soft_value(input)}})

\* The values of a limits line: "unlimited", the one-digit numbers, 500 (the
\* test), and numbers around 10^6, 2^31 / 1000, 2^32 / 1000, 2^32 and 2^64.
LimitValues ==
    {<<117, 110, 108, 105, 109, 105, 116, 101, 100>>} \cup {<<d>> : d \in is_digit}
    \cup {<<53, 48, 48>>,
          <<57, 57, 57, 57, 57, 57>>,
          <<49, 48, 48, 48, 48, 48, 48>>,
          <<50, 49, 52, 55, 52, 56, 51>>,
          <<50, 49, 52, 55, 52, 56, 52>>,
          <<52, 50, 57, 52, 57, 54, 55>>,
          <<52, 50, 57, 52, 57, 54, 56>>,
          <<53, 48, 48, 48, 48, 48, 48>>,
          <<52, 50, 57, 52, 57, 54, 55, 50, 57, 54>>,
          <<52, 50, 57, 52, 57, 54, 55, 50, 57, 55>>,
          <<52, 50, 57, 57, 50, 54, 50, 50, 54, 51>>,
          <<49, 56, 52, 52, 54, 55, 52, 52, 48, 55, 51, 55, 48, 57, 53, 53, 49, 54, 49, 53>>,
          <<49, 56, 52, 52, 54, 55, 52, 52, 48, 55, 51, 55, 48, 57, 53, 53, 49, 54, 49, 53, 48>>}

HardValues == {<<117, 110, 108, 105, 109, 105, 116, 101, 100>>, <<53, 48, 48>>, <<53, 48, 48, 48, 48, 48, 48>>}

Units == {<<115, 101, 99, 111, 110, 100, 115>>, <<117, 115>>}

\* A line as the kernel writes it: "%-25s %-20s %-20s %-10s\n".
LimitLine(soft, hard, unit) ==
    <<77, 97, 120, 32, 114, 101, 97, 108, 116, 105, 109, 101, 32, 116, 105, 109, 101, 111, 117, 116>>
        \o Times(SP, 6) \o soft \o Times(SP, 21 - Len(soft))
        \o hard \o Times(SP, 21 - Len(hard))
        \o unit \o Times(SP, 10 - Len(unit)) \o <<LF>>

InitLimits ==
    /\ origin \in [soft : LimitValues, hard : HardValues, unit : Units,
                   overflow_checks : BOOLEAN]
    /\ src = LimitLine(origin.soft, origin.hard, origin.unit)
    /\ path = src
    /\ pc = "call"
    /\ ret = <<>>
    /\ escaped = {}
    /\ out = <<>>
    /\ Idle

\* parse_duration_line on the line.
ParseDurationLine ==
    /\ pc = "call"
    /\ "overflow_checks" \in DOMAIN origin
    /\ ret' = parse_duration_line(path, origin.overflow_checks)
    /\ pc' = "done"
    /\ UNCHANGED <<src, escaped, path, out, origin, parsed, buf, from, log>>

SpecLimits == InitLimits /\ [][ParseDurationLine]_vars

DurationParsed == "overflow_checks" \in DOMAIN origin /\ pc = "done"

\* The decimal digits of a value read by parse_u64, or <<>> for what it does
\* not read as a number.
Numeric(text) ==
    IF text = <<117, 110, 108, 105, 109, 105, 116, 101, 100>> THEN <<>>
    ELSE LET digits == [i \in 1..Len(text) |-> text[i] - D0] IN
         IF Exceeds(digits, U64_MAX_DEC) THEN <<>> ELSE digits

\* "unlimited", or a number that parse_u64 reads.
Accepted(text) == text = <<117, 110, 108, 105, 109, 105, 116, 101, 100>> \/ Numeric(text) # <<>>

\* The duration d is v microseconds, or v seconds, for v written by digits.
IsDurationOf(d, digits, unit) ==
    LET secs == WrittenIn([i \in 1..U64_BYTES |-> d.secs[U64_BYTES + 1 - i]], 10)
        whole == IF Len(digits) > 6 THEN Take(digits, Len(digits) - 6) ELSE <<>>
        part == IF Len(digits) > 6 THEN Skip(digits, Len(digits) - 6) ELSE digits
    IN  /\ d.some
        /\ ~d.panic
        /\ IF unit = <<115, 101, 99, 111, 110, 100, 115>>
           THEN secs = StripZeros(digits) /\ d.nanos = 0
           ELSE /\ secs = StripZeros(whole)
                /\ WrittenIn(<<d.nanos \div 16777216, (d.nanos \div 65536) % 256,
                               (d.nanos \div 256) % 256, d.nanos % 256>>, 10)
                       = StripZeros(part \o <<0, 0, 0>>)

\* C24: every numeric value v of a line is converted to a Duration of
\* exactly v microseconds where the unit is "us" and of exactly v seconds
\* where it is "seconds": nothing is cut to 32 bits and no product
\* overflows.
C24_ExactDuration ==
    (DurationParsed /\ Accepted(origin.soft) /\ Accepted(origin.hard)) =>
        /\ ret.st = "Done"
        /\ Numeric(origin.soft) # <<>> =>
               IsDurationOf(ret.val.soft, Numeric(origin.soft), origin.unit)
        /\ Numeric(origin.hard) # <<>> =>
               IsDurationOf(ret.val.hard, Numeric(origin.hard), origin.unit)

\* The part of C24 that holds: seconds are exact, and so are microseconds
\* up to 4294967.
C24_ExactWhenSmall ==
    (DurationParsed /\ Accepted(origin.soft) /\ Accepted(origin.hard)
         /\ (origin.unit = <<115, 101, 99, 111, 110, 100, 115>>
                 \/ (/\ ~Exceeds(Numeric(origin.soft), <<4, 2, 9, 4, 9, 6, 7>>)
                     /\ ~Exceeds(Numeric(origin.hard), <<4, 2, 9, 4, 9, 6, 7>>)))) =>
        /\ ret.st = "Done"
        /\ Numeric(origin.soft) # <<>> =>
               IsDurationOf(ret.val.soft, Numeric(origin.soft), origin.unit)
        /\ Numeric(origin.hard) # <<>> =>
               IsDurationOf(ret.val.hard, Numeric(origin.hard), origin.unit)

\* 5000000 us has become 705032704 ns in a build without overflow checks.
C24_WrappedReached ==
    /\ DurationParsed
    /\ origin.soft = <<53, 48, 48, 48, 48, 48, 48>>
    /\ origin.unit = <<117, 115>>
    /\ ~origin.overflow_checks
    /\ ret.st = "Done"
    /\ ret.val.soft = [some |-> TRUE, panic |-> FALSE,
                       secs |-> [i \in 1..U64_BYTES |-> 0], nanos |-> 705032704]

\* 5000000 us has panicked in a build with overflow checks.
C24_PanicReached ==
    /\ DurationParsed
    /\ origin.soft = <<53, 48, 48, 48, 48, 48, 48>>
    /\ origin.unit = <<117, 115>>
    /\ origin.overflow_checks
    /\ ret.st = "Panic"

\* 4294967296 us has become the zero Duration.
C24_TruncatedReached ==
    /\ DurationParsed
    /\ origin.soft = <<52, 50, 57, 52, 57, 54, 55, 50, 57, 54>>
    /\ origin.unit = <<117, 115>>
    /\ ret.st = "Done"
    /\ ret.val.soft = [some |-> TRUE, panic |-> FALSE,
                       secs |-> [i \in 1..U64_BYTES |-> 0], nanos |-> 0]

\* 500 us of the test is 500000 ns.
C24_TestReached ==
    /\ DurationParsed
    /\ origin.soft = <<53, 48, 48>>
    /\ origin.hard = <<117, 110, 108, 105, 109, 105, 116, 101, 100>>
    /\ origin.unit = <<117, 115>>
    /\ ret = Done(<<>>, [soft |-> [some |-> TRUE, panic |-> FALSE,
                                  secs |-> [i \in 1..U64_BYTES |-> 0],
                                  nanos |-> 500000],
                        hard |-> NoDuration])

(***************************************************************************)
(* pid/cpu.rs: the count of the cpu lines of /proc/stat.  A usize is kept  *)
(* as its eight bytes, least significant first.                            *)
(***************************************************************************)
\* str::lines: the data cut after every line feed; what follows the last
\* line feed is a line when it is not empty.
RECURSIVE lines(_)
lines(data) ==
    IF data = <<>> THEN <<>>
    ELSE The({IF q = 0 THEN <<data>>
              ELSE <<Take(data, q - 1)>> \o lines(Skip(data, q)) :
              q \in {position(data, 1, LF)}})

\* The loop of cpu_count: cpus += 1 for every line that starts with "cpu".
RECURSIVE count_cpus(_, _)
count_cpus(ls, cpus) ==
    IF ls = <<>> THEN cpus
    ELSE count_cpus(Tail(ls), IF starts_with(Head(ls), <<99, 112, 117>>) THEN cpus + 1
                              ELSE cpus)

\* cpu_count: Ok(cmp::max(cpus - 1, 1)) on usize; 0 - 1 panics in a build
\* with overflow checks and is usize::MAX in one without.
cpu_count(data, overflow_checks) ==
    The({IF cpus = 0 THEN
             IF overflow_checks THEN [ok |-> FALSE, panic |-> TRUE]
             ELSE IoOk([i \in 1..U64_BYTES |-> 255])
         ELSE IoOk(Take(MulAdd([i \in 1..U64_BYTES |-> 0], 1,
                               IF cpus - 1 >= 1 THEN cpus - 1 ELSE 1),
                        U64_BYTES)) :
         cpus \in {count_cpus(lines(data), 0)}})

\* The lines of a stat file: the aggregate line, a line of one cpu, the
\* line of the interrupts, a line that starts like a cpu line, and the
\* empty line.
MaxStatLines == 4

StatLines ==
    {<<99, 112, 117, 32, 32, 55, 32, 48>>, <<99, 112, 117, 48, 32, 55, 32, 48>>, <<105, 110, 116, 114, 32, 53>>, <<99, 112, 32, 49>>, <<>>}

InitStat ==
    /\ origin \in [pieces : BSeq(StatLines, MaxStatLines), final_lf : BOOLEAN,
                   overflow_checks : BOOLEAN, stat : {TRUE}]
    /\ src = BufferOf(origin)
    /\ path = src
    /\ pc = "call"
    /\ ret = <<>>
    /\ escaped = {}
    /\ out = <<>>
    /\ Idle

\* cpu_count on the data read from /proc/stat.
CpuCount ==
    /\ pc = "call"
    /\ "stat" \in DOMAIN origin
    /\ ret' = cpu_count(path, origin.overflow_checks)
    /\ pc' = "done"
    /\ UNCHANGED <<src, escaped, path, out, origin, parsed, buf, from, log>>

SpecCpu == InitStat /\ [][CpuCount]_vars

CpuCounted == "stat" \in DOMAIN origin /\ pc = "done"

\* The number of lines of the file that start with "cpu": the places of the
\* data that are at its start or after a line feed and where "cpu" stands.
CpuLines ==
    Cardinality({i \in 1..Len(src) :
                    /\ i = 1 \/ src[i - 1] = LF
                    /\ i + 2 <= Len(src)
                    /\ SubSeq(src, i, i + 2) = <<99, 112, 117>>})

\* C25: cpu_count returns max(k - 1, 1) for the k lines that start with
\* "cpu", for every file: at least 1, also for k = 0, where k - 1 does not
\* underflow.
C25_AtLeastOne ==
    CpuCounted =>
        /\ ret.ok
        /\ ret.val = <<IF CpuLines >= 2 THEN CpuLines - 1 ELSE 1>>
                         \o [i \in 1..(U64_BYTES - 1) |-> 0]

\* The part of C25 that holds: max(k - 1, 1) for k of at least 1, and never
\* 0 as the result.
C25_ExceptNoCpuLine ==
    CpuCounted =>
        /\ CpuLines >= 1 =>
               /\ ret.ok
               /\ ret.val = <<IF CpuLines >= 2 THEN CpuLines - 1 ELSE 1>>
                                \o [i \in 1..(U64_BYTES - 1) |-> 0]
        /\ ret.ok => ret.val # [i \in 1..U64_BYTES |-> 0]

\* A file without cpu line has given usize::MAX in a build without overflow
\* checks.
C25_WrappedReached ==
    /\ CpuCounted
    /\ origin.pieces = <<<<105, 110, 116, 114, 32, 53>>>>
    /\ ~origin.overflow_checks
    /\ CpuLines = 0
    /\ ret = IoOk([i \in 1..U64_BYTES |-> 255])

\* A file without cpu line has panicked in a build with overflow checks.
C25_PanicReached ==
    /\ CpuCounted
    /\ origin.pieces = <<<<105, 110, 116, 114, 32, 53>>>>
    /\ origin.overflow_checks
    /\ CpuLines = 0
    /\ ~ret.ok
    /\ ret.panic

\* The aggregate line and three cpu lines have given 3.
C25_ThreeReached ==
    /\ CpuCounted
    /\ origin.pieces = <<<<99, 112, 117, 32, 32, 55, 32, 48>>, <<99, 112, 117, 48, 32, 55, 32, 48>>, <<99, 112, 117, 48, 32, 55, 32, 48>>, <<99, 112, 117, 48, 32, 55, 32, 48>>>>
    /\ CpuLines = 4
    /\ ret = IoOk(<<3, 0, 0, 0, 0, 0, 0, 0>>)

====
